---------------------------- MODULE Spec2Model ----------------------------
(***************************************************************************)
(* A model of the tax engine and of the voice dialogue of the repository.  *)
(*                                                                         *)
(*   Spec      TaxCalculator.calculate_tax (services/tax_calculator.py):   *)
(*             the transaction scan of _analyze_financial_data, one loop   *)
(*             iteration per step, then the two regimes and the            *)
(*             recommendations.                                            *)
(*   SpecBracket  the two bracket engines and the /analyze/tax endpoint    *)
(*             (fastapi/app.py) on one income: FinancialProcessor          *)
(*             .calculate_tax, TaxCalculator._calculate_tax_from_slabs     *)
(*             and analyze_tax.                                            *)
(*   SpecDialog   the voice dialogue (rag/app.py): /voice and              *)
(*             /process_tax_speech, one whole request per step.            *)
(*   SpecConc  two requests to /process_tax_speech for one CallSid on the  *)
(*             threaded server, one statement on the session per step.     *)
(*   SpecChat  the /chat/query endpoint (fastapi/app.py) on one request.   *)
(*   SpecAdvisor  one call of a method of TaxFilingAdvisor (rag/app.py):   *)
(*             query_tax_collection, get_ai_response or                    *)
(*             generate_tax_response.                                      *)
(*   SpecLedger  _analyze_financial_data on amounts with paise, as Python  *)
(*             floats.                                                     *)
(*   SpecClassify  the two transaction classifiers on one description.     *)
(*   SpecCategorizer  TransactionCategorizer (services/                     *)
(*             transaction_categorizer.py): categorize_transaction and     *)
(*             categorize_batch on one call.                               *)
(*   SpecQuota  get_ai_response run by two threads of the threaded server  *)
(*             on the shared advisor, one statement per step.              *)
(*                                                                         *)
(* Money.  In Spec and SpecBracket, incomes, amounts and ledger entries    *)
(* are whole rupees, on which the program's float arithmetic is exact. The *)
(* slab rates are multiples of 5%, so a rate is written in twentieths and  *)
(* a gross tax is a whole number of twentieths of a rupee.  The cess       *)
(* factor 1.04 is 26/25, so a tax with cess is a whole number of           *)
(* five-hundredths of a rupee (26 per twentieth).  round(x, 2) yields      *)
(* paise.  All three are exact: no value of the model is approximated.     *)
(***************************************************************************)
EXTENDS Integers, Sequences, FiniteSets, TLC

VARIABLES
    transactions,      \* calculate_tax: the argument, a list of transactions
    idx,               \* _analyze_financial_data: transactions scanned so far
    income_total,      \* _analyze_financial_data: income_total
    deductions,        \* _analyze_financial_data: the deduction ledger
    category_totals,   \* _analyze_financial_data: debit totals per category
    pc,                \* calculate_tax: "analyze" while scanning, then "done"
    result,            \* calculate_tax: the returned dict, NoResult before
    req_income,        \* SpecBracket: the income argument of the three calls
    req_regime,        \* SpecBracket: the regime argument, "old" or "new"
    current_investments, \* analyze_tax: the form field, parsed or invalid
    fp_result,         \* FinancialProcessor.calculate_tax: the returned dict
    slabs_result,      \* TaxCalculator._calculate_tax_from_slabs: the value
    response,          \* analyze_tax: the HTTP response
    tax_analyses,      \* save_tax_analysis: the rows of table tax_analyses
    sessions,          \* rag/app.py: the module-level dict sessions
    gemini_requests_count, \* TaxFilingAdvisor.gemini_requests_count
    request,           \* SpecDialog: the form fields of the last request
    twiml,             \* SpecDialog: the TwiML of the last response
    turn,              \* SpecConc: per thread, the locals of its request
    sessions_before,   \* SpecConc: sessions when the two requests arrived
    chat_in,           \* SpecChat: the request of chat_query and what it meets
    chat_out,          \* SpecChat: the HTTP response of chat_query
    chat_queries,      \* save_chat_query: the rows of table chat_queries
    call_args,         \* the arguments of a call of a function taken alone
    call_result        \* what that call returned, NoCall before

taxVars == <<transactions, idx, income_total, deductions, category_totals, pc,
             result>>
bracketVars == <<req_income, req_regime, current_investments, fp_result, slabs_result,
                 response, tax_analyses>>
dialogVars == <<sessions, gemini_requests_count, request, twiml>>
concVars == <<turn, sessions_before>>
chatVars == <<chat_in, chat_out, chat_queries>>
callVars == <<call_args, call_result>>
vars == <<taxVars, bracketVars, dialogVars, concVars, chatVars, callVars>>

----------------------------------------------------------------------------
(* Bounds of the model *)

\* Longest transaction list handed to calculate_tax.
MaxTx == 3

\* The incomes of SpecBracket: the multiples of IncomeStep up to
\* MaxIncomeSteps of them, and every slab limit with its two neighbours.
IncomeStep == 50000
MaxIncomeSteps == 40

\* The model follows gemini_requests_count up to this value.
MaxGeminiCalls == 2

----------------------------------------------------------------------------
(* Strings: str.lower() and the substring test `kw in text` *)

UpperCase == "ABCDEFGHIJKLMNOPQRSTUVWXYZ"
LowerCase == "abcdefghijklmnopqrstuvwxyz"

\* The lower-case letter of each upper-case letter.
LowerOf == [c \in {SubSeq(UpperCase, i, i) : i \in 1..Len(UpperCase)} |->
               LET i == CHOOSE j \in 1..Len(UpperCase) : SubSeq(UpperCase, j, j) = c
               IN  SubSeq(LowerCase, i, i)]

LowerChar(c) == IF c \in DOMAIN LowerOf THEN LowerOf[c] ELSE c

RECURSIVE Lower(_)
Lower(s) ==
    IF Len(s) = 0 THEN ""
    ELSE IF Len(s) = 1 THEN LowerChar(s)
    ELSE LET half == Len(s) \div 2
         IN  Lower(SubSeq(s, 1, half)) \o Lower(SubSeq(s, half + 1, Len(s)))

\* kw in text
Contains(text, kw) ==
    \E i \in 1..(Len(text) - Len(kw) + 1) :
        SubSeq(text, i, i + Len(kw) - 1) = kw

\* any(kw in text for kw in kws)
ContainsAny(text, kws) == \E kw \in kws : Contains(text, kw)

Min(a, b) == IF a < b THEN a ELSE b
Max(a, b) == IF a > b THEN a ELSE b

----------------------------------------------------------------------------
(* TaxCalculator.__init__ *)

\* float('inf'): above every income of the model.
Inf == 2147483647

\* (upper limit in rupees, marginal rate in twentieths)
old_regime_slabs ==
    << <<250000, 0>>, <<500000, 1>>, <<1000000, 4>>, <<Inf, 6>> >>

new_regime_slabs ==
    << <<300000, 0>>, <<600000, 1>>, <<900000, 2>>, <<1200000, 3>>,
       <<1500000, 4>>, <<Inf, 6>> >>

standard_deduction == 50000

deduction_limits ==
    [s \in {"80C", "80D", "80D_parents", "80G", "24b", "80TTA", "80E", "80EE"} |->
        CASE s = "80C"         -> 150000
          [] s = "80D"         -> 25000
          [] s = "80D_parents" -> 50000
          [] s = "80G"         -> 0
          [] s = "24b"         -> 200000
          [] s = "80TTA"       -> 10000
          [] s = "80E"         -> 0
          [] s = "80EE"        -> 50000]

\* The sections of the ledger _analyze_financial_data builds.
LedgerSections == {"80C", "80D", "24b", "80G", "80TTA", "80E"}

----------------------------------------------------------------------------
(* The transactions a statement yields.  The parsers store the amount      *)
(* unsigned and the direction in transaction_type, and drop zero amounts.  *)

Tx(d, a, c, t) ==
    [description |-> d, amount |-> a, category |-> c, transaction_type |-> t]

TxCatalogue ==
    { Tx("SALARY CREDIT ACME LTD", 1200000, "income", "credit"),
      Tx("Annual bonus payout", 300000, "income", "credit"),
      Tx("ELSS SIP AXIS LONG TERM", 100000, "sip", "debit"),
      Tx("Health Insurance Premium", 20000, "insurance", "debit"),
      Tx("Health Insurance Parents", 60000, "insurance", "debit"),
      Tx("HOME LOAN EMI HDFC", 200000, "emi", "debit"),
      Tx("Donation to charity trust", 10000, "other", "debit"),
      Tx("Savings account interest", 5000, "income", "credit"),
      Tx("Education loan EMI", 50000, "emi", "debit"),
      Tx("Grocery supermarket", 4000, "food", "debit") }

Categories == {t.category : t \in TxCatalogue}

RECURSIVE SeqsUpTo(_, _)
SeqsUpTo(S, n) ==
    IF n = 0 THEN {<<>>}
    ELSE LET shorter == SeqsUpTo(S, n - 1)
         IN  shorter \cup {Append(q, x) : q \in shorter, x \in S}

----------------------------------------------------------------------------
(* TaxCalculator._calculate_tax_from_slabs *)

\* Mutant: the slab's tax is assigned, not added.
AddSlabTax_Overwrite(total_tax, taxable_in_slab, rate) ==
    taxable_in_slab * rate

\* total_tax += taxable_in_slab * rate
AddSlabTax(total_tax, taxable_in_slab, rate) ==
    total_tax + taxable_in_slab * rate

\* The for loop over the slabs, from slab k on; the result is in twentieths.
RECURSIVE SlabLoop(_, _, _, _, _)
SlabLoop(slabs, k, remaining_income, previous_limit, total_tax) ==
    IF k > Len(slabs) \/ remaining_income <= 0 THEN total_tax
    ELSE LET limit == slabs[k][1]
             rate == slabs[k][2]
             taxable_in_slab == Min(remaining_income, limit - previous_limit)
         IN  SlabLoop(slabs, k + 1, remaining_income - taxable_in_slab, limit,
                      AddSlabTax(total_tax, taxable_in_slab, rate))

\* Mutant: the cess is left out of _calculate_tax_from_slabs.
WithCess_NoCess(total_tax) == total_tax * 25

\* total_tax * 1.04: twentieths to five-hundredths of a rupee.
WithCess(total_tax) == total_tax * 26

\* round(x, 2) of a non-negative x in five-hundredths; the result is in
\* paise.  A five-hundredth is a fifth of a paisa, so no x is a tie.
Round2(x) == (x + 2) \div 5

\* The result is in paise.
CalculateTaxFromSlabs(income, slabs) ==
    Round2(WithCess(SlabLoop(slabs, 1, income, 0, 0)))

----------------------------------------------------------------------------
(* TaxCalculator._analyze_financial_data: one iteration of the for loop *)

RECURSIVE SumOver(_, _)
SumOver(f, S) ==
    IF S = {} THEN 0
    ELSE LET x == CHOOSE y \in S : TRUE IN f[x] + SumOver(f, S \ {x})

\* sum(deductions.values())
SumDeductions(d) == SumOver(d, DOMAIN d)

\* deductions['80D'] += min(amount, limit), for the self or the parents' limit
Add80D(d, amount, limit_key) ==
    [d EXCEPT !["80D"] = @ + Min(amount, deduction_limits[limit_key])]

\* deductions[section] += min(amount, limit - deductions[section])
AddCapped(d, section, amount) ==
    [d EXCEPT ![section] = @ + Min(amount, deduction_limits[section] - @)]

\* amount * 0.7, exact for the amounts of the catalogue (multiples of 10)
InterestPortion(amount) == (amount * 7) \div 10

\* Mutant: the savings-interest branch is tested before the income branch.
ScanTransaction_InterestFirst(t, income, d) ==
    LET amount == t.amount
        category == t.category
        description == Lower(t.description)
    IN  IF Contains(description, "interest") /\ t.transaction_type = "credit" THEN
            IF Contains(description, "savings")
            THEN <<income, AddCapped(d, "80TTA", amount)>>
            ELSE <<income, d>>
        ELSE IF category = "income" \/ t.transaction_type = "credit" THEN
            IF ContainsAny(description, {"salary", "wage", "bonus"})
            THEN <<income + amount, d>>
            ELSE <<income, d>>
        ELSE IF category = "sip" \/ Contains(description, "sip") THEN
            IF Contains(description, "elss")
            THEN <<income, AddCapped(d, "80C", amount)>>
            ELSE <<income, d>>
        ELSE IF category = "insurance" \/ Contains(description, "insurance") THEN
            IF Contains(description, "health") \/ Contains(description, "medical")
            THEN IF Contains(description, "parent")
                 THEN <<income, Add80D(d, amount, "80D_parents")>>
                 ELSE <<income, Add80D(d, amount, "80D")>>
            ELSE <<income, d>>
        ELSE IF category = "emi" /\ Contains(description, "home loan") THEN
            <<income, AddCapped(d, "24b", InterestPortion(amount))>>
        ELSE IF Contains(description, "donation") \/ Contains(description, "charity") THEN
            <<income, [d EXCEPT !["80G"] = @ + amount]>>
        ELSE IF Contains(description, "education loan") THEN
            <<income, [d EXCEPT !["80E"] = @ + amount]>>
        ELSE <<income, d>>

\* The if/elif chain on one transaction: <<income_total, deductions>> after it.
ScanTransaction(t, income, d) ==
    LET amount == t.amount
        category == t.category
        description == Lower(t.description)
    IN  IF category = "income" \/ t.transaction_type = "credit" THEN
            IF ContainsAny(description, {"salary", "wage", "bonus"})
            THEN <<income + amount, d>>
            ELSE <<income, d>>
        ELSE IF category = "sip" \/ Contains(description, "sip") THEN
            IF Contains(description, "elss")
            THEN <<income, AddCapped(d, "80C", amount)>>
            ELSE <<income, d>>
        ELSE IF category = "insurance" \/ Contains(description, "insurance") THEN
            IF Contains(description, "health") \/ Contains(description, "medical")
            THEN IF Contains(description, "parent")
                 THEN <<income, Add80D(d, amount, "80D_parents")>>
                 ELSE <<income, Add80D(d, amount, "80D")>>
            ELSE <<income, d>>
        ELSE IF category = "emi" /\ Contains(description, "home loan") THEN
            <<income, AddCapped(d, "24b", InterestPortion(amount))>>
        ELSE IF Contains(description, "donation") \/ Contains(description, "charity") THEN
            <<income, [d EXCEPT !["80G"] = @ + amount]>>
        ELSE IF Contains(description, "interest") /\ t.transaction_type = "credit" THEN
            IF Contains(description, "savings")
            THEN <<income, AddCapped(d, "80TTA", amount)>>
            ELSE <<income, d>>
        ELSE IF Contains(description, "education loan") THEN
            <<income, [d EXCEPT !["80E"] = @ + amount]>>
        ELSE <<income, d>>

\* category_totals after one transaction
ScanCategoryTotals(t, ct) ==
    IF t.transaction_type = "debit"
    THEN [ct EXCEPT ![t.category] = @ + t.amount]
    ELSE ct

----------------------------------------------------------------------------
(* TaxCalculator.calculate_tax, after the scan *)

NoResult == [status |-> "none"]

\* _calculate_old_regime_tax
CalculateOldRegimeTax(taxable_income, d) ==
    LET income_after_deductions == Max(0, taxable_income - SumDeductions(d))
    IN  CalculateTaxFromSlabs(income_after_deductions, old_regime_slabs)

\* _calculate_new_regime_tax
CalculateNewRegimeTax(total_income) ==
    LET taxable_income == Max(0, total_income - standard_deduction)
    IN  CalculateTaxFromSlabs(taxable_income, new_regime_slabs)

\* Mutant: the comparison is not strict.
RecommendedRegime_NotStrict(old_regime_tax, new_regime_tax) ==
    IF old_regime_tax <= new_regime_tax THEN "Old Regime" ELSE "New Regime"

\* "Old Regime" if old_regime_tax < new_regime_tax else "New Regime"
RecommendedRegime(old_regime_tax, new_regime_tax) ==
    IF old_regime_tax < new_regime_tax THEN "Old Regime" ELSE "New Regime"

\* _generate_tax_recommendations: the recommendations, each named by its kind
GenerateTaxRecommendations(total_income, d, taxable_income) ==
    LET old_tax == CalculateOldRegimeTax(taxable_income, d)
        new_tax == CalculateNewRegimeTax(total_income)
    IN  (IF deduction_limits["80C"] - d["80C"] > 0 THEN <<"80C">> ELSE <<>>)
        \o (IF d["80D"] < deduction_limits["80D"] THEN <<"80D">> ELSE <<>>)
        \o (IF d["24b"] = 0 /\ taxable_income > 500000 THEN <<"24b">> ELSE <<>>)
        \o (IF d["80TTA"] < deduction_limits["80TTA"] THEN <<"80TTA">> ELSE <<>>)
        \o (IF old_tax < new_tax THEN <<"stick_old_regime">>
                                 ELSE <<"switch_new_regime">>)
        \o (IF taxable_income > 1000000 THEN <<"nps_bonds">> ELSE <<>>)

Abs(x) == IF x < 0 THEN -x ELSE x

\* The dict calculate_tax returns.
TaxResult(total_income, d) ==
    LET total_deductions == SumDeductions(d)
        taxable_income ==
            Max(0, total_income - total_deductions - standard_deduction)
        old_regime_tax == CalculateOldRegimeTax(taxable_income, d)
        new_regime_tax == CalculateNewRegimeTax(total_income)
    IN  [status |-> "ok",
         total_income |-> total_income,
         taxable_income |-> taxable_income,
         old_regime_tax |-> old_regime_tax,
         new_regime_tax |-> new_regime_tax,
         recommended_regime |-> RecommendedRegime(old_regime_tax, new_regime_tax),
         tax_saved |-> Abs(old_regime_tax - new_regime_tax),
         deductions |-> d,
         total_deductions |-> total_deductions,
         recommendations |->
             GenerateTaxRecommendations(total_income, d, taxable_income)]

----------------------------------------------------------------------------
(* fastapi/app.py: the slab tables, the limits, FinancialProcessor *)

OLD_REGIME_SLABS ==
    << <<250000, 0>>, <<500000, 1>>, <<1000000, 4>>, <<Inf, 6>> >>

NEW_REGIME_SLABS ==
    << <<300000, 0>>, <<600000, 1>>, <<900000, 2>>, <<1200000, 3>>,
       <<1500000, 4>>, <<Inf, 6>> >>

DEDUCTION_LIMITS ==
    [s \in {"80C", "80D", "80G", "24b"} |->
        CASE s = "80C" -> 150000
          [] s = "80D" -> 25000
          [] s = "80G" -> 100000
          [] s = "24b" -> 200000]

\* Mutant: the slab is not reduced by the part already taxed.
FP_TaxableInSlab_Whole(inc, limit, prev_limit) == Min(inc, limit)

\* taxable_in_slab = min(income, limit) - prev_limit
FP_TaxableInSlab(inc, limit, prev_limit) == Min(inc, limit) - prev_limit

\* The for loop of FinancialProcessor.calculate_tax, from slab k on; the
\* result is the gross tax in twentieths.
RECURSIVE FP_SlabLoop(_, _, _, _, _)
FP_SlabLoop(slabs, k, inc, prev_limit, tax) ==
    IF k > Len(slabs) \/ inc <= prev_limit THEN tax
    ELSE LET limit == slabs[k][1]
             rate == slabs[k][2]
             tax2 == tax + FP_TaxableInSlab(inc, limit, prev_limit) * rate
         IN  IF inc <= limit THEN tax2
             ELSE FP_SlabLoop(slabs, k + 1, inc, limit, tax2)

\* Mutant: the cess is left out.
FP_TotalTax_NoCess(tax) == tax * 25

\* total_tax = tax * 1.04: twentieths to five-hundredths of a rupee.
FP_TotalTax(tax) == tax * 26

\* FinancialProcessor.calculate_tax.  gross_tax is in twentieths of a rupee,
\* cess and total_tax in five-hundredths (tax * 0.04 is one five-hundredth
\* per twentieth); effective_rate is the exact quotient <<num, den>> of
\* total_tax (five-hundredths) by income (rupees).
FP_CalculateTax(inc, reg) ==
    LET slabs == IF reg = "new" THEN NEW_REGIME_SLABS ELSE OLD_REGIME_SLABS
        tax == FP_SlabLoop(slabs, 1, inc, 0, 0)
        total_tax == FP_TotalTax(tax)
    IN  [gross_tax |-> tax,
         cess |-> tax,
         total_tax |-> total_tax,
         effective_rate |-> IF inc > 0 THEN <<total_tax, inc>> ELSE <<0, 1>>]

----------------------------------------------------------------------------
(* fastapi/app.py: analyze_tax and save_tax_analysis *)

\* json.loads(current_investments), {} on a JSONDecodeError
ParseInvestments(ci) == IF ci.valid THEN ci.dict ELSE <<>>

\* investments_dict.get(section, 0)
GetOr0(d, section) == IF section \in DOMAIN d THEN d[section] ELSE 0

\* if annual_income <= 0: raise HTTPException(422)
IncomeIsInvalid(annual_income) == annual_income <= 0

\* Mutant: the comparison of the two taxes is not strict.
AnalyzeRecommendations_NotStrict(old, new, available) ==
    (IF old.total_tax <= new.total_tax
     THEN <<"old_regime_beneficial">>
          \o (IF available["80C"] > 0 THEN <<"invest_80C">> ELSE <<>>)
     ELSE <<"new_regime_beneficial">>)
    \o (IF available["80D"] > 0 THEN <<"health_insurance_80D">> ELSE <<>>)

\* The recommendations, each named by its kind.
AnalyzeRecommendations(old, new, available) ==
    (IF old.total_tax < new.total_tax
     THEN <<"old_regime_beneficial">>
          \o (IF available["80C"] > 0 THEN <<"invest_80C">> ELSE <<>>)
     ELSE <<"new_regime_beneficial">>)
    \o (IF available["80D"] > 0 THEN <<"health_insurance_80D">> ELSE <<>>)

\* analyze_tax: <<the response, the row saved or NoRow>>
NoRow == [saved |-> FALSE]

AnalyzeTaxOutcome(annual_income, ci) ==
    IF IncomeIsInvalid(annual_income)
    THEN << [status |-> 422, detail |-> "Annual income must be positive"], NoRow >>
    ELSE LET investments_dict == ParseInvestments(ci)
             old == FP_CalculateTax(annual_income, "old")
             new == FP_CalculateTax(annual_income, "new")
             available ==
                 [s \in DOMAIN DEDUCTION_LIMITS |->
                     Max(0, DEDUCTION_LIMITS[s] - GetOr0(investments_dict, s))]
             recs == AnalyzeRecommendations(old, new, available)
         IN  << [status |-> 200,
                 old_regime_tax |-> old.total_tax,
                 new_regime_tax |-> new.total_tax,
                 recommendations |-> recs,
                 deductions_available |-> available],
                [saved |-> TRUE,
                 annual_income |-> annual_income,
                 current_investments |-> ci,
                 old_regime_tax |-> old.total_tax,
                 new_regime_tax |-> new.total_tax,
                 recommendations |-> recs,
                 deductions_available |-> available] >>

----------------------------------------------------------------------------
(* rag/app.py: numbers in text: str(int(x)), float(s), the regex classes *)

DigitChars == "0123456789"

\* \d
IsDigit(c) == \E i \in 1..Len(DigitChars) : SubSeq(DigitChars, i, i) = c

DigitVal(c) ==
    (CHOOSE i \in 1..Len(DigitChars) : SubSeq(DigitChars, i, i) = c) - 1

\* \s
IsSpace(c) == c = " " \/ c = "\t" \/ c = "\n"

\* \w
IsWordChar(c) ==
    \/ IsDigit(c)
    \/ c = "_"
    \/ \E i \in 1..Len(LowerCase) :
           SubSeq(LowerCase, i, i) = c \/ SubSeq(UpperCase, i, i) = c

CharAt(s, i) == IF 1 <= i /\ i <= Len(s) THEN SubSeq(s, i, i) ELSE ""

\* int(s) of a string of digits ("" is 0)
RECURSIVE StrToNat(_)
StrToNat(s) ==
    IF Len(s) = 0 THEN 0
    ELSE StrToNat(SubSeq(s, 1, Len(s) - 1)) * 10 + DigitVal(SubSeq(s, Len(s), Len(s)))

\* str(n) of an int n >= 0
RECURSIVE NatToStr(_)
NatToStr(n) ==
    IF n < 10 THEN SubSeq(DigitChars, n + 1, n + 1)
    ELSE NatToStr(n \div 10) \o SubSeq(DigitChars, (n % 10) + 1, (n % 10) + 1)

RECURSIVE Pow10(_)
Pow10(n) == IF n = 0 THEN 1 ELSE 10 * Pow10(n - 1)

\* The last index of the run of digits that starts at i (i - 1 if none).
RECURSIVE DigitRunEnd(_, _)
DigitRunEnd(s, i) ==
    IF IsDigit(CharAt(s, i)) THEN DigitRunEnd(s, i + 1) ELSE i - 1

\* The first index from i on that holds no white space.
RECURSIVE SkipSpace(_, _)
SkipSpace(s, i) ==
    IF IsSpace(CharAt(s, i)) THEN SkipSpace(s, i + 1) ELSE i

StartsWithAt(s, i, kw) ==
    i + Len(kw) - 1 <= Len(s) /\ SubSeq(s, i, i + Len(kw) - 1) = kw

NoNumber == [found |-> FALSE]

\* float(digits[.digits]) * unit, as the exact quotient num / den
Number(int_part, frac_part, unit) ==
    [found |-> TRUE,
     num |-> (StrToNat(int_part) * Pow10(Len(frac_part)) + StrToNat(frac_part)) * unit,
     den |-> Pow10(Len(frac_part))]

\* A match of (\d+(?:\.\d+)?)\s*<word> that starts at i, or NoNumber.
\* The digits are followed by a non-digit, so each run is taken whole.
MatchAmountAt(s, i, word, unit) ==
    IF ~IsDigit(CharAt(s, i)) THEN NoNumber
    ELSE LET j == DigitRunEnd(s, i)
             has_frac == CharAt(s, j + 1) = "." /\ IsDigit(CharAt(s, j + 2))
             k == DigitRunEnd(s, j + 2)
         IN  IF has_frac /\ StartsWithAt(s, SkipSpace(s, k + 1), word)
             THEN Number(SubSeq(s, i, j), SubSeq(s, j + 2, k), unit)
             ELSE IF StartsWithAt(s, SkipSpace(s, j + 1), word)
             THEN Number(SubSeq(s, i, j), "", unit)
             ELSE NoNumber

\* A match of \b(\d+(?:\.\d+)?)\b that starts at i, or NoNumber.
MatchPlainAt(s, i) ==
    IF ~IsDigit(CharAt(s, i)) \/ IsWordChar(CharAt(s, i - 1)) THEN NoNumber
    ELSE LET j == DigitRunEnd(s, i)
             has_frac == CharAt(s, j + 1) = "." /\ IsDigit(CharAt(s, j + 2))
             k == DigitRunEnd(s, j + 2)
         IN  IF has_frac /\ ~IsWordChar(CharAt(s, k + 1))
             THEN Number(SubSeq(s, i, j), SubSeq(s, j + 2, k), 1)
             ELSE IF ~IsWordChar(CharAt(s, j + 1))
             THEN Number(SubSeq(s, i, j), "", 1)
             ELSE NoNumber

\* re.search: the match at the leftmost index that has one.
RECURSIVE SearchAmount(_, _, _, _)
SearchAmount(s, i, word, unit) ==
    IF i > Len(s) THEN NoNumber
    ELSE LET m == MatchAmountAt(s, i, word, unit)
         IN  IF m.found THEN m ELSE SearchAmount(s, i + 1, word, unit)

RECURSIVE SearchPlain(_, _)
SearchPlain(s, i) ==
    IF i > Len(s) THEN NoNumber
    ELSE LET m == MatchPlainAt(s, i)
         IN  IF m.found THEN m ELSE SearchPlain(s, i + 1)

\* extract_number_from_speech
ExtractNumberFromSpeech(speech) ==
    LET speech_lower == Lower(speech)
        lakh_match == SearchAmount(speech_lower, 1, "lakh", 100000)
        crore_match == SearchAmount(speech_lower, 1, "crore", 10000000)
    IN  IF lakh_match.found THEN lakh_match
        ELSE IF crore_match.found THEN crore_match
        ELSE SearchPlain(speech, 1)

\* income_amount and income_amount > 0
IsPositiveAmount(v) == v.found /\ v.num > 0

\* int(income_amount)
IntOf(v) == v.num \div v.den

\* extract_income_sources_from_speech
income_keywords ==
    << <<"salary", {"salary", "job", "employed", "employment", "wage"}>>,
       <<"business", {"business", "self-employed", "proprietor", "shop", "trading"}>>,
       <<"profession", {"profession", "professional", "doctor", "lawyer",
                        "consultant", "practice"}>>,
       <<"house_property", {"rental", "rent", "property", "house property",
                            "real estate"}>>,
       <<"capital_gains", {"capital gains", "shares", "stocks", "mutual fund",
                           "property sale"}>>,
       <<"other_sources", {"interest", "dividend", "fd", "fixed deposit",
                           "savings"}>> >>

RECURSIVE IncomeSourcesFrom(_, _)
IncomeSourcesFrom(speech_lower, k) ==
    IF k > Len(income_keywords) THEN <<>>
    ELSE (IF ContainsAny(speech_lower, income_keywords[k][2])
          THEN <<income_keywords[k][1]>> ELSE <<>>)
         \o IncomeSourcesFrom(speech_lower, k + 1)

ExtractIncomeSourcesFromSpeech(speech) ==
    LET income_sources == IncomeSourcesFrom(Lower(speech), 1)
    IN  IF income_sources # <<>> THEN income_sources ELSE <<"unknown">>

\* extract_yes_no_from_speech: "yes", "no" or "none"
ExtractYesNoFromSpeech(speech) ==
    LET speech_lower == Lower(speech)
    IN  IF ContainsAny(speech_lower,
                       {"yes", "yeah", "yep", "sure", "correct", "right"})
        THEN "yes"
        ELSE IF ContainsAny(speech_lower,
                            {"no", "nope", "not", "wrong", "incorrect"})
        THEN "no"
        ELSE "none"

----------------------------------------------------------------------------
(* rag/app.py: a session dict, the profile, the ITR form *)

EmptyDict == <<>>

Has(d, k) == k \in DOMAIN d

\* d.get(k, default)
Get(d, k, default) == IF Has(d, k) THEN d[k] ELSE default

\* d[k] = v
Put(d, k, v) == [x \in (DOMAIN d) \cup {k} |-> IF x = k THEN v ELSE d[x]]

\* del d[k], for a key that is present
Del(d, k) == [x \in (DOMAIN d) \ {k} |-> d[x]]

\* session.get("pending_follow_up"), "" for None
PendingFollowUp(session) == Get(session, "pending_follow_up", "")

\* session.get("pending_follow_up_type"), "" for None
PendingFollowUpType(session) == Get(session, "pending_follow_up_type", "")

\* TaxFilingAdvisor.get_user_tax_profile
GetUserTaxProfile(session_data) ==
    [age |-> Get(session_data, "age", "unknown"),
     total_income |-> Get(session_data, "total_income", "unknown"),
     income_sources |-> Get(session_data, "income_sources", <<"unknown">>),
     salary_income |-> Get(session_data, "salary_income", "unknown"),
     business_income |-> Get(session_data, "business_income", "unknown"),
     house_property |-> Get(session_data, "house_property", "unknown"),
     capital_gains |-> Get(session_data, "capital_gains", "unknown"),
     inherited_property |-> Get(session_data, "inherited_property", "unknown"),
     tax_regime_preference |-> Get(session_data, "tax_regime_preference", "unknown"),
     previous_itr_filed |-> Get(session_data, "previous_itr_filed", "unknown"),
     current_deductions |-> Get(session_data, "current_deductions", "unknown"),
     pan_card |-> Get(session_data, "pan_card", "unknown")]

InSeq(x, q) == \E i \in 1..Len(q) : q[i] = x

\* TaxFilingAdvisor.suggest_itr_form
SuggestItrForm(profile) ==
    LET income_sources == profile.income_sources
        total_income == profile.total_income
        income_amount ==
            IF total_income # "unknown" THEN StrToNat(total_income) ELSE 0
    IN  IF /\ Len(income_sources) = 1
           /\ InSeq("salary", income_sources)
           /\ income_amount <= 5000000
           /\ profile.house_property = "one"
           /\ profile.capital_gains = "no"
        THEN "ITR-1 (Sahaj) - suitable for your salary income"
        ELSE IF InSeq("business", income_sources) /\ income_amount <= 20000000
        THEN "ITR-4 (Sugam) - for presumptive business income"
        ELSE IF InSeq("business", income_sources) \/ InSeq("profession", income_sources)
        THEN "ITR-3 - required for business/professional income"
        ELSE IF \/ Len(income_sources) > 1
                \/ InSeq("capital_gains", income_sources)
                \/ profile.inherited_property = "yes"
        THEN "ITR-2 - for multiple income sources or capital gains"
        ELSE "ITR-2 - recommended for your income profile"

----------------------------------------------------------------------------
(* rag/app.py: TaxFilingAdvisor: retrieval, the providers, the answer.     *)
(* The rupee sign of the texts is written Rs.                              *)

max_gemini_requests == 1000

\* What the store does on one query: the category has no collection, the
\* query raises, or it returns ranked documents (distance in hundredths),
\* each with its metadata.
Doc(c, dist) == [content |-> c, distance |-> dist, metadata |-> [source |-> "kb"]]

\* A made-up entry that carries the metadata of a stored document.
Sentinel_WithSource(text) == [content |-> text, metadata |-> [source |-> "kb"]]

\* An entry query_tax_collection makes up, with metadata {}.
Sentinel(text) == [content |-> text, metadata |-> EmptyDict]

\* query_tax_collection with the cutoff itself let through (dist <= 0.6).
QueryTaxCollection_CutoffInclusive(store) ==
    IF store.kind = "results" THEN
        LET filtered == SelectSeq(store.docs, LAMBDA d : d.distance <= 60)
        IN  IF filtered # <<>>
            THEN [i \in 1..Len(filtered) |->
                     [content |-> filtered[i].content, metadata |-> filtered[i].metadata]]
            ELSE <<Sentinel("No specific information found for your query.")>>
    ELSE IF store.kind = "raises"
    THEN <<Sentinel("Unable to retrieve tax information at the moment.")>>
    ELSE <<Sentinel("Tax information not available.")>>

\* TaxFilingAdvisor.query_tax_collection: the list of entries
QueryTaxCollection(store) ==
    IF store.kind = "results" THEN
        LET filtered == SelectSeq(store.docs, LAMBDA d : d.distance < 60)
        IN  IF filtered # <<>>
            THEN [i \in 1..Len(filtered) |->
                     [content |-> filtered[i].content, metadata |-> filtered[i].metadata]]
            ELSE <<Sentinel("No specific information found for your query.")>>
    ELSE IF store.kind = "raises"
    THEN <<Sentinel("Unable to retrieve tax information at the moment.")>>
    ELSE <<Sentinel("Tax information not available.")>>

\* [result["content"] for result in rag_results]
ContentsOf(rag_results) == [i \in 1..Len(rag_results) |-> rag_results[i].content]

\* sep.join(parts)
RECURSIVE Join(_, _)
Join(parts, sep) ==
    IF Len(parts) = 0 THEN ""
    ELSE IF Len(parts) = 1 THEN parts[1]
    ELSE parts[1] \o sep \o Join(Tail(parts), sep)

\* The prompt of generate_tax_response.
Prompt(profile, context, query) ==
    "You are an expert Indian Tax Consultant specializing in income tax filing. "
    \o "Provide accurate, practical advice based on Indian tax laws and the context provided. "
    \o "Keep responses under 80 words for voice delivery, using clear, professional language.\n"
    \o "User Tax Profile: Age " \o profile.age
    \o ", Total Income Rs" \o profile.total_income \o ", \n"
    \o "Income Sources: " \o Join(profile.income_sources, ", ") \o ", \n"
    \o "Tax Regime: " \o profile.tax_regime_preference \o ", \n"
    \o "Previous ITR Filed: " \o profile.previous_itr_filed \o "\n"
    \o "Tax Knowledge Context: " \o context \o "\n"
    \o "Current Query: " \o query \o "\n"
    \o "Provide specific, actionable tax advice in a conversational tone suitable for voice."

\* TaxFilingAdvisor.get_tax_rule_based_response
GetTaxRuleBasedResponse(query) ==
    LET query_lower == Lower(query)
    IN  IF Contains(query_lower, "file tax") \/ Contains(query_lower, "itr")
        THEN
             "For tax filing, you need Form 16, bank statements, and investment proofs. ITR-1 is for salary income up to Rs50 lakh. Due date is July 31st for individuals. What's your income source?"
        ELSE IF Contains(query_lower, "regime") THEN
             "New tax regime has lower rates but fewer deductions. Old regime allows 80C, HRA, home loan benefits. Choose based on your total deductions. What deductions do you currently have?"
        ELSE IF Contains(query_lower, "deduction") \/ Contains(query_lower, "80c")
        THEN
             "Section 80C allows Rs1.5 lakh deduction via ELSS, PPF, life insurance, home loan principal. Section 80D for health insurance up to Rs25,000. What investments do you have?"
        ELSE IF Contains(query_lower, "penalty") THEN
             "Late filing penalty is Rs1,000-10,000 based on income. Interest charged at 1% per month on unpaid taxes. File before July 31st to avoid penalty."
        ELSE
             "I can help with tax filing, ITR forms, regime selection, and deductions. Please specify your tax-related question."

\* The text a provider returns when it answers.
LLMAnswer == "You can file your return online on the e-filing portal."

\* get_ai_response asking Gemini whatever Groq did.
GetAIResponse_GeminiAlways(prompt, env, count) ==
    LET count1 == IF env.day_rolled THEN 0 ELSE count
        gemini_tried == env.gemini # "absent" /\ count1 < max_gemini_requests
        tried == (IF env.groq # "absent" THEN <<"groq">> ELSE <<>>)
                     \o (IF gemini_tried THEN <<"gemini">> ELSE <<>>)
        count2 == IF gemini_tried THEN count1 + 1 ELSE count1
    IN  IF env.groq = "ok"
        THEN [text |-> LLMAnswer, count |-> count2, by |-> "groq", tried |-> tried]
        ELSE IF gemini_tried /\ env.gemini = "ok"
        THEN [text |-> LLMAnswer, count |-> count2, by |-> "gemini", tried |-> tried]
        ELSE [text |-> GetTaxRuleBasedResponse(prompt), count |-> count2,
              by |-> "rules", tried |-> tried]

\* TaxFilingAdvisor.get_ai_response with reset_daily_limits.  env says
\* whether the day has changed since rate_limit_reset and what each provider
\* does: "absent" (no client), "ok" or "raises".
GetAIResponse(prompt, env, count) ==
    LET count1 == IF env.day_rolled THEN 0 ELSE count
        groq_tried == env.groq # "absent"
        gemini_tried == env.groq # "ok" /\ env.gemini # "absent"
                            /\ count1 < max_gemini_requests
        tried == (IF groq_tried THEN <<"groq">> ELSE <<>>)
                     \o (IF gemini_tried THEN <<"gemini">> ELSE <<>>)
    IN  IF env.groq = "ok"
        THEN [text |-> LLMAnswer, count |-> count1, by |-> "groq", tried |-> tried]
        ELSE IF gemini_tried
        THEN IF env.gemini = "ok"
             THEN [text |-> LLMAnswer, count |-> count1 + 1, by |-> "gemini",
                   tried |-> tried]
             ELSE [text |-> GetTaxRuleBasedResponse(prompt), count |-> count1 + 1,
                   by |-> "rules", tried |-> tried]
        ELSE [text |-> GetTaxRuleBasedResponse(prompt), count |-> count1,
              by |-> "rules", tried |-> tried]

\* generate_tax_response: <<follow_up, follow_up_type>>, "" for None
FollowUpFor(query, profile) ==
    LET query_lower == Lower(query)
    IN  IF Contains(query_lower, "file tax") \/ Contains(query_lower, "itr") THEN
            IF profile.total_income = "unknown"
            THEN <<"What's your approximate annual income? You can say like 'five lakhs' or 'ten lakhs'.",
                   "total_income">>
            ELSE IF profile.income_sources = <<"unknown">>
            THEN <<"What are your sources of income? Salary, business, rental, or others?",
                   "income_sources">>
            ELSE IF profile.previous_itr_filed = "unknown"
            THEN <<"Have you filed ITR in previous years?", "previous_itr_filed">>
            ELSE <<"", "">>
        ELSE IF Contains(query_lower, "regime") /\ profile.current_deductions = "unknown"
        THEN <<"Do you have investments like PPF, ELSS, or home loan for deductions?",
               "current_deductions">>
        ELSE <<"", "">>

\* TaxFilingAdvisor.generate_tax_response on the sessions ss: the sessions
\* and the request count after it, the response and the follow-up.
GenerateTaxResponse(ss, count, query, session_id, env) ==
    LET session == Get(ss, session_id, EmptyDict)
        rag_results == QueryTaxCollection(env.store)
        context == Join(ContentsOf(rag_results), "\n")
        profile == GetUserTaxProfile(session)
        ai == GetAIResponse(Prompt(profile, context, query), env, count)
        fu == FollowUpFor(query, profile)
        s1 == Put(Put(session, "last_query", query), "last_response", ai.text)
        s2 == IF fu[1] # ""
              THEN Put(Put(s1, "pending_follow_up", fu[1]),
                       "pending_follow_up_type", fu[2])
              ELSE s1
    IN  [sessions |-> Put(ss, session_id, s2),
         count |-> ai.count,
         response |-> ai.text,
         follow_up |-> fu[1]]

----------------------------------------------------------------------------
(* rag/app.py: /voice and /process_tax_speech, one whole request *)

\* s.strip()
RECURSIVE Strip(_)
Strip(s) ==
    IF Len(s) = 0 THEN s
    ELSE IF IsSpace(SubSeq(s, 1, 1)) THEN Strip(SubSeq(s, 2, Len(s)))
    ELSE IF IsSpace(SubSeq(s, Len(s), Len(s))) THEN Strip(SubSeq(s, 1, Len(s) - 1))
    ELSE s

\* The digits of f"{n:,}".
RECURSIVE Commas(_)
Commas(digits) ==
    IF Len(digits) <= 3 THEN digits
    ELSE Commas(SubSeq(digits, 1, Len(digits) - 3)) \o ","
             \o SubSeq(digits, Len(digits) - 2, Len(digits))

\* The verbs of a VoiceResponse.  A Gather carries the text said inside it.
Say(text) == [verb |-> "say", text |-> text]
Gather(text) == [verb |-> "gather", text |-> text]
Hangup == [verb |-> "hangup", text |-> ""]

Greeting ==
    "Hello, I'm your Tax Filing Assistant for India. I can help you with ITR filing, tax regime selection, deductions, and income tax queries. How can I assist you with your tax filing today?"
NotCaught == "I didn't catch that. Please try again with your tax question."
Farewell ==
    "Thank you for using our tax filing service. For complex cases, consult a qualified CA. Goodbye!"
AskSourcesNext ==
    "What are your income sources? Salary, business, property rental, or others?"
\* The re-prompt after a failed extraction, by pending type.
RepromptOf(type) ==
    IF type = "total_income"
    THEN "Please specify your income amount, like 'five lakhs' or 'ten lakhs'."
    ELSE IF type = "income_sources"
    THEN "Please mention your income sources like salary, business, rental property, or others."
    ELSE IF type = "previous_itr_filed"
    THEN "Please say yes or no - have you filed ITR before?"
    ELSE "Please say yes or no - do you have investments like PPF, ELSS, or home loan?"

TechnicalIssue == "Technical issue occurred. Please try again or call back later."

farewell_words == {"goodbye", "end call", "thank you", "bye"}

IsFarewell(speech) == ContainsAny(Lower(speech), farewell_words)

\* The response of handle_exception for a voice endpoint.
HandleException == <<Say(TechnicalIssue)>>

\* The pending_follow_up_type the normal path derives from the follow-up
\* text, "" when no branch assigns one.
FollowUpTypeOf(follow_up) ==
    LET f == Lower(follow_up)
    IN  IF Contains(f, "income") /\ Contains(f, "annual") THEN "total_income"
        ELSE IF Contains(f, "sources") THEN "income_sources"
        ELSE IF Contains(f, "filed") THEN "previous_itr_filed"
        ELSE IF Contains(f, "deductions") \/ Contains(f, "investments")
        THEN "current_deductions"
        ELSE ""

\* Mutant: a filled slot's branch deletes the question and keeps its type.
ClearPending_KeepsType(session) == Del(session, "pending_follow_up")

\* The two deletions of a filled slot's branch.
ClearPending(session) == Del(Del(session, "pending_follow_up"), "pending_follow_up_type")

\* A session without its pending follow-up.
FailedSlotSession_DropsPending(session) ==
    [x \in (DOMAIN session) \ {"pending_follow_up", "pending_follow_up_type"} |->
        session[x]]

\* The session a failed extraction stores back: the one it read.
FailedSlotSession(session) == session

Outcome(ss, count, tw) == [sessions |-> ss, count |-> count, twiml |-> tw]

\* pending_follow_up_type == "total_income"
TotalIncomeTurn(ss, count, session, speech, session_id) ==
    LET income_amount == ExtractNumberFromSpeech(speech)
    IN  IF IsPositiveAmount(income_amount) THEN
            LET s1 == ClearPending(Put(session, "total_income",
                                       NatToStr(IntOf(income_amount))))
                itr_suggestion == SuggestItrForm(GetUserTaxProfile(s1))
                s2 == Put(Put(s1, "pending_follow_up", AskSourcesNext),
                          "pending_follow_up_type", "income_sources")
            IN  Outcome(Put(ss, session_id, s2), count,
                    <<Say("Noted, income Rs" \o Commas(NatToStr(IntOf(income_amount)))
                          \o ". Based on this, you should use " \o itr_suggestion \o "."),
                      Gather(s2["pending_follow_up"])>>)
        ELSE Outcome(Put(ss, session_id, FailedSlotSession(session)), count,
                     <<Say(RepromptOf("total_income")), Gather("")>>)

\* pending_follow_up_type == "income_sources"
IncomeSourcesTurn(ss, count, session, speech, session_id) ==
    LET income_sources == ExtractIncomeSourcesFromSpeech(speech)
    IN  IF income_sources # <<"unknown">> THEN
            LET s1 == ClearPending(Put(session, "income_sources", income_sources))
                itr_suggestion == SuggestItrForm(GetUserTaxProfile(s1))
            IN  Outcome(Put(ss, session_id, s1), count,
                    <<Say("Understood, your income sources are "
                          \o Join(income_sources, ", ") \o "."),
                      Say("For your profile, I recommend " \o itr_suggestion
                          \o ". Need help with anything specific?"),
                      Gather("")>>)
        ELSE Outcome(Put(ss, session_id, FailedSlotSession(session)), count,
                     <<Say(RepromptOf("income_sources")), Gather("")>>)

\* pending_follow_up_type == "previous_itr_filed"
PreviousItrFiledTurn(ss, count, session, speech, session_id, env) ==
    LET itr_response == ExtractYesNoFromSpeech(speech)
    IN  IF itr_response # "none" THEN
            LET s1 == ClearPending(Put(session, "previous_itr_filed", itr_response))
                g == GenerateTaxResponse(Put(ss, session_id, s1), count,
                                         "help with tax filing process", session_id, env)
                s2 == g.sessions[session_id]
                s3 == IF g.follow_up # ""
                      THEN Put(s2, "pending_follow_up", g.follow_up) ELSE s2
            IN  Outcome(Put(g.sessions, session_id, s3), g.count,
                    <<Say(IF itr_response = "yes"
                          THEN "Good, since you've filed before, the process will be familiar."
                          ELSE "No problem, I'll guide you through first-time filing."),
                      Say(g.response),
                      Gather(g.follow_up)>>)
        ELSE Outcome(Put(ss, session_id, FailedSlotSession(session)), count,
                     <<Say(RepromptOf("previous_itr_filed")), Gather("")>>)

\* pending_follow_up_type == "current_deductions"
CurrentDeductionsTurn(ss, count, session, speech, session_id) ==
    LET has_deductions == ExtractYesNoFromSpeech(speech)
    IN  IF has_deductions # "none" THEN
            LET s1 == ClearPending(Put(session, "current_deductions", has_deductions))
            IN  Outcome(Put(ss, session_id, s1), count,
                    <<Say(IF has_deductions = "yes"
                          THEN "With your deductions, old tax regime might be beneficial. Let me calculate."
                          ELSE "Without major deductions, new tax regime with lower rates may suit you better."),
                      Gather("")>>)
        ELSE Outcome(Put(ss, session_id, FailedSlotSession(session)), count,
                     <<Say(RepromptOf("current_deductions")), Gather("")>>)

\* The normal path.  session is the handler's local: the stored dict when
\* the id was known, so that generate_tax_response has updated it, and
\* otherwise a dict of its own, which replaces the stored one.
NormalTurn(ss, count, session, speech, session_id, env) ==
    LET g == GenerateTaxResponse(ss, count, speech, session_id, env)
        local == IF Has(ss, session_id) THEN g.sessions[session_id] ELSE session
        s1 == IF g.follow_up # "" THEN Put(local, "pending_follow_up", g.follow_up)
                                  ELSE local
        s2 == IF g.follow_up # "" /\ FollowUpTypeOf(g.follow_up) # ""
              THEN Put(s1, "pending_follow_up_type", FollowUpTypeOf(g.follow_up))
              ELSE s1
    IN  Outcome(Put(g.sessions, session_id, s2), g.count,
                <<Say(g.response), Gather(g.follow_up)>>)

SlotTypes == {"total_income", "income_sources", "previous_itr_filed",
              "current_deductions"}

\* process_tax_speech: the sessions, the request count and the response
\* after the request (SpeechResult = raw_speech, CallSid = session_id).
ProcessTaxSpeechOutcome(ss, count, raw_speech, session_id, env) ==
    LET speech == Strip(raw_speech)
        session == Get(ss, session_id, EmptyDict)
        type == PendingFollowUpType(session)
    IN  IF speech = "" THEN Outcome(ss, count, <<Say(NotCaught), Gather("")>>)
        ELSE IF IsFarewell(speech) THEN Outcome(ss, count, <<Say(Farewell), Hangup>>)
        ELSE IF PendingFollowUp(session) # "" /\ type = "total_income"
        THEN TotalIncomeTurn(ss, count, session, speech, session_id)
        ELSE IF PendingFollowUp(session) # "" /\ type = "income_sources"
        THEN IncomeSourcesTurn(ss, count, session, speech, session_id)
        ELSE IF PendingFollowUp(session) # "" /\ type = "previous_itr_filed"
        THEN PreviousItrFiledTurn(ss, count, session, speech, session_id, env)
        ELSE IF PendingFollowUp(session) # "" /\ type = "current_deductions"
        THEN CurrentDeductionsTurn(ss, count, session, speech, session_id)
        ELSE NormalTurn(ss, count, session, speech, session_id, env)

\* The request reaches generate_tax_response.
CallsAdvisor(ss, raw_speech, session_id) ==
    LET speech == Strip(raw_speech)
        session == Get(ss, session_id, EmptyDict)
        type == PendingFollowUpType(session)
    IN  /\ speech # ""
        /\ ~IsFarewell(speech)
        /\ \/ PendingFollowUp(session) = ""
           \/ type \notin SlotTypes
           \/ type = "previous_itr_filed" /\ ExtractYesNoFromSpeech(speech) # "none"

----------------------------------------------------------------------------
(* rag/app.py: what a request meets outside the process *)

NearAndFar == [kind |-> "results",
               docs |-> <<Doc("The due date for individuals is July 31st.", 35),
                          Doc("HRA exemption needs rent receipts.", 72)>>]
OnlyFar == [kind |-> "results",
            docs |-> <<Doc("HRA exemption needs rent receipts.", 72)>>]
NoCollection == [kind |-> "none", docs |-> <<>>]
StoreRaises == [kind |-> "raises", docs |-> <<>>]

\* The surroundings a request of the dialogue may meet: Groq answers;
\* Groq raises and Gemini answers; both raise on a new day; neither is
\* configured.
GroqAnswers == [store |-> NearAndFar, groq |-> "ok", gemini |-> "absent",
                day_rolled |-> FALSE]
GeminiAnswers == [store |-> NoCollection, groq |-> "raises", gemini |-> "ok",
                  day_rolled |-> FALSE]
AllDown == [store |-> StoreRaises, groq |-> "raises", gemini |-> "raises",
            day_rolled |-> TRUE]
NoProviders == [store |-> OnlyFar, groq |-> "absent", gemini |-> "absent",
                day_rolled |-> FALSE]

Envs == {GroqAnswers, GeminiAnswers, AllDown, NoProviders}

\* The surroundings of a request that reaches neither the store nor a provider.
QuietEnv == NoProviders

\* CallSid values.
SessionIds == {"CA1"}

\* SpeechResult values.
Utterances ==
    {"", "Goodbye", "ten lakhs", "10 lakhs ", "salary and rent", "Yes",
     "How to file tax return", "which tax regime is better"}

\* The threads of the threaded server that run process_tax_speech.
Threads == {"T1", "T2"}

\* The locals of a thread that runs no request.
IdleTurn ==
    [pc |-> "idle", speech |-> "", env |-> QuietEnv,
     pending_follow_up |-> "", pending_follow_up_type |-> "",
     query |-> "", caller |-> "", profile |-> GetUserTaxProfile(EmptyDict),
     response |-> "", follow_up |-> "", follow_up_type |-> "",
     twiml |-> <<>>, failed |-> FALSE]

\* The form fields of a request.
Request(endpoint, session_id, raw_speech) ==
    [endpoint |-> endpoint, CallSid |-> session_id, SpeechResult |-> raw_speech]

NoRequest == Request("", "", "")

\* No call is in progress.
DialogIdle ==
    /\ sessions = EmptyDict
    /\ gemini_requests_count = 0
    /\ request = NoRequest
    /\ twiml = <<>>

\* No thread runs a request.
ConcIdle ==
    /\ turn = [t \in Threads |-> IdleTurn]
    /\ sessions_before = EmptyDict

\* The value of a result before the call.
NoCall == [called |-> FALSE]

\* No chat query is being answered.
ChatIdle ==
    /\ chat_in = NoCall
    /\ chat_out = NoCall
    /\ chat_queries = <<>>

\* No function is called alone.
CallIdle ==
    /\ call_args = NoCall
    /\ call_result = NoCall

----------------------------------------------------------------------------
(* Spec: calculate_tax on every transaction list of up to MaxTx entries *)

\* No call of SpecBracket is under way.
BracketIdle ==
    /\ req_income = 0
    /\ req_regime = "new"
    /\ current_investments = [valid |-> FALSE]
    /\ fp_result = NoCall
    /\ slabs_result = NoCall
    /\ response = NoCall
    /\ tax_analyses = <<>>

\* No call of calculate_tax is under way.
TaxIdle ==
    /\ transactions = <<>>
    /\ idx = 0
    /\ income_total = 0
    /\ deductions = [s \in LedgerSections |-> 0]
    /\ category_totals = [c \in Categories |-> 0]
    /\ pc = "idle"
    /\ result = NoResult

Init ==
    /\ transactions \in SeqsUpTo(TxCatalogue, MaxTx)
    /\ idx = 0
    /\ income_total = 0
    /\ deductions = [s \in LedgerSections |-> 0]
    /\ category_totals = [c \in Categories |-> 0]
    /\ pc = "analyze"
    /\ result = NoResult
    /\ BracketIdle
    /\ DialogIdle
    /\ ConcIdle
    /\ ChatIdle
    /\ CallIdle

\* One iteration of the loop of _analyze_financial_data.
AnalyzeStep ==
    /\ pc = "analyze"
    /\ idx < Len(transactions)
    /\ LET t == transactions[idx + 1]
           after == ScanTransaction(t, income_total, deductions)
       IN  /\ income_total' = after[1]
           /\ deductions' = after[2]
           /\ category_totals' = ScanCategoryTotals(t, category_totals)
    /\ idx' = idx + 1
    /\ UNCHANGED <<transactions, pc, result, bracketVars, dialogVars, concVars, chatVars, callVars>>

\* The loop is over: the rest of calculate_tax.
CalculateTax ==
    /\ pc = "analyze"
    /\ idx = Len(transactions)
    /\ result' = TaxResult(income_total, deductions)
    /\ pc' = "done"
    /\ UNCHANGED <<transactions, idx, income_total, deductions, category_totals,
                   bracketVars, dialogVars, concVars, chatVars, callVars>>

Next == AnalyzeStep \/ CalculateTax

Spec == Init /\ [][Next]_vars

----------------------------------------------------------------------------
(* SpecBracket: the bracket engines and analyze_tax on one income *)

SlabLimits == {250000, 300000, 500000, 600000, 900000, 1000000, 1200000, 1500000}

Incomes ==
    {k * IncomeStep : k \in 0..MaxIncomeSteps}
        \cup {l + d : l \in SlabLimits, d \in {-1, 0, 1}}
        \cup {-1000, 1}

CurrentInvestments ==
    { [valid |-> FALSE],
      [valid |-> TRUE, dict |-> <<>>],
      [valid |-> TRUE, dict |-> [s \in {"80C"} |-> 50000]],
      [valid |-> TRUE, dict |-> [s \in {"80C", "80D"} |->
                                    IF s = "80C" THEN 150000 ELSE 25000]] }

InitBracket ==
    /\ TaxIdle
    /\ req_income \in Incomes
    /\ req_regime \in {"old", "new"}
    /\ current_investments \in CurrentInvestments
    /\ fp_result = NoCall
    /\ slabs_result = NoCall
    /\ response = NoCall
    /\ tax_analyses = <<>>
    /\ DialogIdle
    /\ ConcIdle
    /\ ChatIdle
    /\ CallIdle

\* processor.calculate_tax(req_income, req_regime)
CallFPCalculateTax ==
    /\ fp_result = NoCall
    /\ fp_result' = [called |-> TRUE] @@ FP_CalculateTax(req_income, req_regime)
    /\ UNCHANGED <<taxVars, req_income, req_regime, current_investments, slabs_result,
                   response, tax_analyses, dialogVars, concVars, chatVars, callVars>>

\* tax_calculator._calculate_tax_from_slabs(req_income, the slabs of req_regime)
CallCalculateTaxFromSlabs ==
    /\ slabs_result = NoCall
    /\ slabs_result' =
           [called |-> TRUE,
            value |-> CalculateTaxFromSlabs(req_income,
                          IF req_regime = "new" THEN new_regime_slabs
                                            ELSE old_regime_slabs)]
    /\ UNCHANGED <<taxVars, req_income, req_regime, current_investments, fp_result,
                   response, tax_analyses, dialogVars, concVars, chatVars, callVars>>

\* POST /analyze/tax with annual_income = req_income
AnalyzeTax ==
    /\ response = NoCall
    /\ LET out == AnalyzeTaxOutcome(req_income, current_investments)
       IN  /\ response' = [called |-> TRUE] @@ out[1]
           /\ tax_analyses' = IF out[2].saved THEN Append(tax_analyses, out[2])
                                              ELSE tax_analyses
    /\ UNCHANGED <<taxVars, req_income, req_regime, current_investments, fp_result,
                   slabs_result, dialogVars, concVars, chatVars, callVars>>

NextBracket == CallFPCalculateTax \/ CallCalculateTaxFromSlabs \/ AnalyzeTax

SpecBracket == InitBracket /\ [][NextBracket]_vars

----------------------------------------------------------------------------
(* SpecDialog: the calls of one caller, one request after the other *)

InitDialog ==
    /\ TaxIdle
    /\ BracketIdle
    /\ DialogIdle
    /\ ConcIdle
    /\ ChatIdle
    /\ CallIdle

\* POST /voice
Voice ==
    \E session_id \in SessionIds :
        /\ sessions' = Put(sessions, session_id, EmptyDict)
        /\ request' = Request("voice", session_id, "")
        /\ twiml' = <<Say(Greeting), Gather("")>>
        /\ UNCHANGED <<gemini_requests_count, taxVars, bracketVars, concVars, chatVars, callVars>>

\* POST /process_tax_speech with the given form fields, in surroundings env
ProcessTaxSpeechIn(session_id, raw_speech, env) ==
    \E out \in {ProcessTaxSpeechOutcome(sessions, gemini_requests_count, raw_speech,
                                       session_id, env)} :
        /\ out.count <= MaxGeminiCalls
        /\ sessions' = out.sessions
        /\ gemini_requests_count' = out.count
        /\ request' = Request("process_tax_speech", session_id, raw_speech)
        /\ twiml' = out.twiml
        /\ UNCHANGED <<taxVars, bracketVars, concVars, chatVars, callVars>>

\* POST /process_tax_speech
ProcessTaxSpeech ==
    \E session_id \in SessionIds, raw_speech \in Utterances :
        \E env \in (IF CallsAdvisor(sessions, raw_speech, session_id)
                    THEN Envs ELSE {QuietEnv}) :
            ProcessTaxSpeechIn(session_id, raw_speech, env)

NextDialog == Voice \/ ProcessTaxSpeech

SpecDialog == InitDialog /\ [][NextDialog]_vars

----------------------------------------------------------------------------
(* SpecConc: two requests to /process_tax_speech for one CallSid, served   *)
(* by two threads of the threaded server.  Nothing guards sessions, so a   *)
(* thread may be preempted between any two statements.  The session was    *)
(* created by /voice, so both threads hold the one dict stored under the   *)
(* id, and the statements sessions[session_id] = session change nothing.   *)
(* A step is one statement that reads or writes that dict; the reads of    *)
(* get_user_tax_profile are taken together.                                *)

ConcSessionId == "CA1"

\* The requests the caller made before the two concurrent ones.
Scripts ==
    { <<>>,
      <<"How to file tax return">>,
      <<"How to file tax return", "10 lakhs ">>,
      <<"How to file tax return", "10 lakhs ", "salary and rent",
        "How to file tax return">>,
      <<"which tax regime is better">> }

\* sessions after /voice and the requests of script, one after the other.
RECURSIVE AfterScript(_)
AfterScript(script) ==
    IF script = <<>> THEN Put(EmptyDict, ConcSessionId, EmptyDict)
    ELSE ProcessTaxSpeechOutcome(AfterScript(SubSeq(script, 1, Len(script) - 1)), 0,
                                 script[Len(script)], ConcSessionId, GroqAnswers).sessions

ConcUtterances ==
    {"Goodbye", "ten lakhs", "10 lakhs ", "salary and rent", "Yes",
     "How to file tax return"}

ConcEnvs == {GroqAnswers, AllDown}

InitConc ==
    /\ TaxIdle
    /\ BracketIdle
    /\ sessions \in {AfterScript(script) : script \in Scripts}
    /\ sessions_before = sessions
    /\ gemini_requests_count = 0
    /\ request = NoRequest
    /\ twiml = <<>>
    /\ turn = [t \in Threads |-> IdleTurn]
    /\ ChatIdle
    /\ CallIdle

\* The dict both threads hold.
Shared == sessions[ConcSessionId]

\* The slot extractor of a pending type finds a value in speech.
SlotFound(type, speech) ==
    IF type = "total_income" THEN IsPositiveAmount(ExtractNumberFromSpeech(speech))
    ELSE IF type = "income_sources"
    THEN ExtractIncomeSourcesFromSpeech(speech) # <<"unknown">>
    ELSE ExtractYesNoFromSpeech(speech) # "none"

\* The value the branch of a pending type stores.
SlotValue(type, speech) ==
    IF type = "total_income" THEN NatToStr(IntOf(ExtractNumberFromSpeech(speech)))
    ELSE IF type = "income_sources" THEN ExtractIncomeSourcesFromSpeech(speech)
    ELSE ExtractYesNoFromSpeech(speech)

ConcFrame ==
    UNCHANGED <<taxVars, bracketVars, request, twiml, sessions_before, chatVars,
                callVars>>

\* Thread t goes on at pc with the locals changed as in changes.
Goto(t, changes) == turn' = [turn EXCEPT ![t] = changes @@ turn[t]]

\* Thread t has answered tw.
Done(t, tw) == Goto(t, [pc |-> "done", twiml |-> tw])

\* A KeyError in thread t: handle_exception answers.
Raise(t) == Goto(t, [pc |-> "done", twiml |-> HandleException, failed |-> TRUE])

\* Lines 425-440: the form fields, the session, the two early answers.
Begin(t) ==
    /\ turn[t].pc = "idle"
    /\ \E raw_speech \in ConcUtterances, env \in ConcEnvs :
           LET speech == Strip(raw_speech)
           IN  IF speech = ""
               THEN Done(t, <<Say(NotCaught), Gather("")>>)
               ELSE IF IsFarewell(speech)
               THEN Goto(t, [pc |-> "done", speech |-> speech, env |-> env,
                             twiml |-> <<Say(Farewell), Hangup>>])
               ELSE Goto(t, [pc |-> "read_pending", speech |-> speech, env |-> env])
    /\ UNCHANGED <<sessions, gemini_requests_count>>
    /\ ConcFrame

\* Line 443
ReadPending(t) ==
    /\ turn[t].pc = "read_pending"
    /\ Goto(t, [pc |-> "read_type", pending_follow_up |-> PendingFollowUp(Shared)])
    /\ UNCHANGED <<sessions, gemini_requests_count>>
    /\ ConcFrame

\* Line 444, then the branch taken and the extraction, on locals only.
ReadType(t) ==
    /\ turn[t].pc = "read_type"
    /\ LET type == PendingFollowUpType(Shared)
       IN  IF turn[t].pending_follow_up # "" /\ type \in SlotTypes
           THEN IF SlotFound(type, turn[t].speech)
                THEN Goto(t, [pc |-> "set_slot", pending_follow_up_type |-> type])
                ELSE Goto(t, [pc |-> "done", pending_follow_up_type |-> type,
                              twiml |-> <<Say(RepromptOf(type)), Gather("")>>])
           ELSE Goto(t, [pc |-> "gen_profile", pending_follow_up_type |-> type,
                         query |-> turn[t].speech, caller |-> "normal"])
    /\ UNCHANGED <<sessions, gemini_requests_count>>
    /\ ConcFrame

\* Lines 450, 476, 502, 541: session[slot] = value
SetSlot(t) ==
    /\ turn[t].pc = "set_slot"
    /\ sessions' = Put(sessions, ConcSessionId,
                       Put(Shared, turn[t].pending_follow_up_type,
                           SlotValue(turn[t].pending_follow_up_type, turn[t].speech)))
    /\ Goto(t, [pc |-> "del_pending"])
    /\ UNCHANGED gemini_requests_count
    /\ ConcFrame

\* Lines 451, 477, 503, 542: del session["pending_follow_up"]
DelPending(t) ==
    /\ turn[t].pc = "del_pending"
    /\ IF Has(Shared, "pending_follow_up")
       THEN /\ sessions' = Put(sessions, ConcSessionId, Del(Shared, "pending_follow_up"))
            /\ Goto(t, [pc |-> "del_type"])
       ELSE /\ Raise(t)
            /\ UNCHANGED sessions
    /\ UNCHANGED gemini_requests_count
    /\ ConcFrame

\* What follows the two deletions, by branch.
AfterDeletions(t) ==
    LET type == turn[t].pending_follow_up_type
    IN  IF type = "total_income" THEN Goto(t, [pc |-> "ti_profile"])
        ELSE IF type = "income_sources" THEN Goto(t, [pc |-> "is_profile"])
        ELSE IF type = "previous_itr_filed"
        THEN Goto(t, [pc |-> "gen_profile", query |-> "help with tax filing process",
                      caller |-> "previous_itr",
                      twiml |-> <<Say(IF ExtractYesNoFromSpeech(turn[t].speech) = "yes"
                                      THEN "Good, since you've filed before, the process will be familiar."
                                      ELSE "No problem, I'll guide you through first-time filing.")>>])
        ELSE Done(t, <<Say(IF ExtractYesNoFromSpeech(turn[t].speech) = "yes"
                           THEN "With your deductions, old tax regime might be beneficial. Let me calculate."
                           ELSE "Without major deductions, new tax regime with lower rates may suit you better."),
                       Gather("")>>)

\* Lines 452, 478, 504, 543: del session["pending_follow_up_type"]
DelType(t) ==
    /\ turn[t].pc = "del_type"
    /\ IF Has(Shared, "pending_follow_up_type")
       THEN /\ sessions' = Put(sessions, ConcSessionId,
                               Del(Shared, "pending_follow_up_type"))
            /\ AfterDeletions(t)
       ELSE /\ Raise(t)
            /\ UNCHANGED sessions
    /\ UNCHANGED gemini_requests_count
    /\ ConcFrame

\* Lines 455-456: the ITR form of the profile of the session
TiProfile(t) ==
    /\ turn[t].pc = "ti_profile"
    /\ Goto(t, [pc |-> "ti_set_pending",
                twiml |-> <<Say("Noted, income Rs"
                    \o Commas(SlotValue("total_income", turn[t].speech))
                    \o ". Based on this, you should use "
                    \o SuggestItrForm(GetUserTaxProfile(Shared)) \o ".")>>])
    /\ UNCHANGED <<sessions, gemini_requests_count>>
    /\ ConcFrame

\* Line 459
TiSetPending(t) ==
    /\ turn[t].pc = "ti_set_pending"
    /\ sessions' = Put(sessions, ConcSessionId,
                       Put(Shared, "pending_follow_up", AskSourcesNext))
    /\ Goto(t, [pc |-> "ti_set_type"])
    /\ UNCHANGED gemini_requests_count
    /\ ConcFrame

\* Line 460
TiSetType(t) ==
    /\ turn[t].pc = "ti_set_type"
    /\ sessions' = Put(sessions, ConcSessionId,
                       Put(Shared, "pending_follow_up_type", "income_sources"))
    /\ Goto(t, [pc |-> "ti_say"])
    /\ UNCHANGED gemini_requests_count
    /\ ConcFrame

\* Line 462: gather.say(session["pending_follow_up"])
TiSay(t) ==
    /\ turn[t].pc = "ti_say"
    /\ IF Has(Shared, "pending_follow_up")
       THEN Done(t, Append(turn[t].twiml, Gather(Shared["pending_follow_up"])))
       ELSE Raise(t)
    /\ UNCHANGED <<sessions, gemini_requests_count>>
    /\ ConcFrame

\* Lines 481-486
IsProfile(t) ==
    /\ turn[t].pc = "is_profile"
    /\ Done(t, <<Say("Understood, your income sources are "
                     \o Join(ExtractIncomeSourcesFromSpeech(turn[t].speech), ", ") \o "."),
                 Say("For your profile, I recommend "
                     \o SuggestItrForm(GetUserTaxProfile(Shared))
                     \o ". Need help with anything specific?"),
                 Gather("")>>)
    /\ UNCHANGED <<sessions, gemini_requests_count>>
    /\ ConcFrame

\* generate_tax_response, lines 351-356: the profile of the session
GenProfile(t) ==
    /\ turn[t].pc = "gen_profile"
    /\ Goto(t, [pc |-> "gen_ai", profile |-> GetUserTaxProfile(Shared)])
    /\ UNCHANGED <<sessions, gemini_requests_count>>
    /\ ConcFrame

\* generate_tax_response, lines 359-392: the answer and the follow-up
GenAI(t) ==
    /\ turn[t].pc = "gen_ai"
    /\ \E ai \in {GetAIResponse(Prompt(turn[t].profile,
                                       Join(ContentsOf(QueryTaxCollection(turn[t].env.store)), "\n"),
                                       turn[t].query),
                                turn[t].env, gemini_requests_count)} :
           /\ ai.count <= MaxGeminiCalls
           /\ gemini_requests_count' = ai.count
           /\ LET fu == FollowUpFor(turn[t].query, turn[t].profile)
              IN  Goto(t, [pc |-> "gen_set_query", response |-> ai.text,
                           follow_up |-> fu[1], follow_up_type |-> fu[2]])
    /\ UNCHANGED sessions
    /\ ConcFrame

\* generate_tax_response, line 395
GenSetQuery(t) ==
    /\ turn[t].pc = "gen_set_query"
    /\ sessions' = Put(sessions, ConcSessionId, Put(Shared, "last_query", turn[t].query))
    /\ Goto(t, [pc |-> "gen_set_response"])
    /\ UNCHANGED gemini_requests_count
    /\ ConcFrame

\* The caller's statements after generate_tax_response has returned.
Returned(t) ==
    IF turn[t].caller = "previous_itr" THEN Goto(t, [pc |-> "p_answer"])
    ELSE IF turn[t].follow_up # "" THEN Goto(t, [pc |-> "n_set_pending"])
    ELSE Done(t, <<Say(turn[t].response), Gather("")>>)

\* generate_tax_response, line 396
GenSetResponse(t) ==
    /\ turn[t].pc = "gen_set_response"
    /\ sessions' = Put(sessions, ConcSessionId,
                       Put(Shared, "last_response", turn[t].response))
    /\ IF turn[t].follow_up # "" THEN Goto(t, [pc |-> "gen_set_pending"])
                                 ELSE Returned(t)
    /\ UNCHANGED gemini_requests_count
    /\ ConcFrame

\* generate_tax_response, line 398
GenSetPending(t) ==
    /\ turn[t].pc = "gen_set_pending"
    /\ sessions' = Put(sessions, ConcSessionId,
                       Put(Shared, "pending_follow_up", turn[t].follow_up))
    /\ Goto(t, [pc |-> "gen_set_type"])
    /\ UNCHANGED gemini_requests_count
    /\ ConcFrame

\* generate_tax_response, line 399
GenSetType(t) ==
    /\ turn[t].pc = "gen_set_type"
    /\ sessions' = Put(sessions, ConcSessionId,
                       Put(Shared, "pending_follow_up_type", turn[t].follow_up_type))
    /\ Returned(t)
    /\ UNCHANGED gemini_requests_count
    /\ ConcFrame

\* Line 570
NSetPending(t) ==
    /\ turn[t].pc = "n_set_pending"
    /\ sessions' = Put(sessions, ConcSessionId,
                       Put(Shared, "pending_follow_up", turn[t].follow_up))
    /\ Goto(t, [pc |-> "n_set_type"])
    /\ UNCHANGED gemini_requests_count
    /\ ConcFrame

\* Lines 571-582
NSetType(t) ==
    /\ turn[t].pc = "n_set_type"
    /\ sessions' = IF FollowUpTypeOf(turn[t].follow_up) # ""
                   THEN Put(sessions, ConcSessionId,
                            Put(Shared, "pending_follow_up_type",
                                FollowUpTypeOf(turn[t].follow_up)))
                   ELSE sessions
    /\ Done(t, <<Say(turn[t].response), Gather(turn[t].follow_up)>>)
    /\ UNCHANGED gemini_requests_count
    /\ ConcFrame

\* Lines 518-530: the answer, and line 521 when a follow-up came back
PAnswer(t) ==
    /\ turn[t].pc = "p_answer"
    /\ sessions' = IF turn[t].follow_up # ""
                   THEN Put(sessions, ConcSessionId,
                            Put(Shared, "pending_follow_up", turn[t].follow_up))
                   ELSE sessions
    /\ Done(t, turn[t].twiml \o <<Say(turn[t].response), Gather(turn[t].follow_up)>>)
    /\ UNCHANGED gemini_requests_count
    /\ ConcFrame

NextConc ==
    \E t \in Threads :
        \/ Begin(t)
        \/ ReadPending(t)
        \/ ReadType(t)
        \/ SetSlot(t)
        \/ DelPending(t)
        \/ DelType(t)
        \/ TiProfile(t)
        \/ TiSetPending(t)
        \/ TiSetType(t)
        \/ TiSay(t)
        \/ IsProfile(t)
        \/ GenProfile(t)
        \/ GenAI(t)
        \/ GenSetQuery(t)
        \/ GenSetResponse(t)
        \/ GenSetPending(t)
        \/ GenSetType(t)
        \/ NSetPending(t)
        \/ NSetType(t)
        \/ PAnswer(t)

SpecConc == InitConc /\ [][NextConc]_vars

----------------------------------------------------------------------------
(* Claims about calculate_tax, checked under Spec *)

\* C1 (as stated): the old-regime tax of the result is the slab tax, cess
\* included, of exactly the reported taxable_income, so the itemized
\* deductions are subtracted from the income once.
C1_OldTaxOnReportedTaxableIncome ==
    pc = "done" =>
        result.old_regime_tax =
            CalculateTaxFromSlabs(result.taxable_income, old_regime_slabs)

\* C2 (as stated): after every prefix of the scan each section's accumulated
\* deduction is at most its limit: 80C 150000, 80D 25000 + 50000,
\* 24b 200000, 80TTA 10000.
C2_LedgerWithinLimits ==
    /\ deductions["80C"] <= deduction_limits["80C"]
    /\ deductions["80D"] <= deduction_limits["80D"] + deduction_limits["80D_parents"]
    /\ deductions["24b"] <= deduction_limits["24b"]
    /\ deductions["80TTA"] <= deduction_limits["80TTA"]

\* C4: the old regime is recommended exactly when its tax is strictly lower;
\* on equal taxes the new regime is recommended.
C4_RegimeSelection ==
    pc = "done" =>
        /\ (result.recommended_regime = "Old Regime")
               <=> (result.old_regime_tax < result.new_regime_tax)
        /\ (result.old_regime_tax = result.new_regime_tax)
               => (result.recommended_regime = "New Regime")

\* C4 witness: a result whose two taxes are equal and positive.
C4_Witness ==
    /\ pc = "done"
    /\ result.old_regime_tax = result.new_regime_tax
    /\ result.old_regime_tax > 0
    /\ result.recommended_regime = "New Regime"

\* C7 (as stated, for TaxCalculator.calculate_tax): when the income derived
\* from the transactions is <= 0, no result is returned.
C7_NonPositiveIncomeRejected ==
    (pc = "done" /\ income_total <= 0) => result.status # "ok"

----------------------------------------------------------------------------
(* Claims about the bracket engines, checked under SpecBracket *)

\* C3: under a fixed slab table the total tax, cess included, does not
\* decrease when the income grows: the tax either engine returned for an
\* income >= 0 is at most its tax for every larger income.
C3_BracketMonotonic ==
    \A i2 \in Incomes :
        (req_income >= 0 /\ i2 > req_income) =>
            /\ fp_result.called =>
                   FP_CalculateTax(i2, req_regime).total_tax >= fp_result.total_tax
            /\ slabs_result.called =>
                   CalculateTaxFromSlabs(i2,
                       IF req_regime = "new" THEN new_regime_slabs
                                             ELSE old_regime_slabs)
                       >= slabs_result.value

\* C3 witness: both engines have run on an income at the top of a taxed
\* slab, with larger incomes to compare with.
C3_Witness ==
    /\ fp_result.called
    /\ slabs_result.called
    /\ req_income = 500000
    /\ fp_result.total_tax > 0
    /\ slabs_result.value > 0

\* C5 (as stated): calculate_tax(1200000, 'old') returns gross tax 102500
\* and total tax 106600.
C5_AsStated ==
    (fp_result.called /\ req_income = 1200000 /\ req_regime = "old") =>
        /\ fp_result.gross_tax = 102500 * 20
        /\ fp_result.total_tax = 106600 * 500

\* C5 (amended): calculate_tax(1200000, 'old') returns gross tax 172500
\* (12500 + 100000 + 60000 over the 2.5L-5L, 5L-10L and above-10L slabs)
\* and total tax 179400 after the 4% cess.
C5_OldRegimeExample ==
    (fp_result.called /\ req_income = 1200000 /\ req_regime = "old") =>
        /\ fp_result.gross_tax = 172500 * 20
        /\ fp_result.total_tax = 179400 * 500

\* C5 witness: calculate_tax(1200000, 'old') has returned.
C5_Witness ==
    fp_result.called /\ req_income = 1200000 /\ req_regime = "old"

\* C6: calculate_tax(1200000, 'new') returns gross tax 90000, made of 15000,
\* 30000 and 45000 over the 3L-6L, 6L-9L and 9L-12L slabs, and total tax
\* 93600 after the 4% cess.
C6_NewRegimeExample ==
    (fp_result.called /\ req_income = 1200000 /\ req_regime = "new") =>
        /\ fp_result.gross_tax = 90000 * 20
        /\ fp_result.total_tax = 93600 * 500
        /\ FP_CalculateTax(600000, "new").gross_tax = 15000 * 20
        /\ FP_CalculateTax(900000, "new").gross_tax = (15000 + 30000) * 20
        /\ fp_result.gross_tax
               - FP_CalculateTax(900000, "new").gross_tax = 45000 * 20

\* C6 witness: calculate_tax(1200000, 'new') has returned.
C6_Witness ==
    fp_result.called /\ req_income = 1200000 /\ req_regime = "new"

----------------------------------------------------------------------------
\* C25: for every non-negative income and either regime,
\* _calculate_tax_from_slabs on the regime's slabs is the total_tax of
\* FinancialProcessor.calculate_tax rounded to two decimals, and both are 0
\* for income 0.
C25_BracketEnginesAgree ==
    (fp_result.called /\ slabs_result.called /\ req_income >= 0) =>
        /\ slabs_result.value = Round2(fp_result.total_tax)
        /\ req_income = 0 => (slabs_result.value = 0 /\ fp_result.total_tax = 0)

\* Both engines were called on an income in the top slab, with a tax.
C25_Witness ==
    /\ fp_result.called
    /\ slabs_result.called
    /\ req_income = 1500001
    /\ req_regime = "new"
    /\ slabs_result.value = Round2(fp_result.total_tax)
    /\ slabs_result.value > 0

----------------------------------------------------------------------------
(* Claims about the dialogue, checked under SpecDialog *)

\* The request being answered is a turn of session_id.
IsTurnOf(session_id) ==
    /\ request'.endpoint = "process_tax_speech"
    /\ request'.CallSid = session_id

\* C8: from a session whose pending follow-up type is total_income, the
\* turn "ten lakhs" sets the session's total_income to 1000000 and leaves
\* the total_income slot no longer pending.
C8_TenLakhsFillsIncome ==
    [][\A session_id \in SessionIds :
          ( /\ Has(sessions, session_id)
            /\ PendingFollowUp(sessions[session_id]) # ""
            /\ PendingFollowUpType(sessions[session_id]) = "total_income"
            /\ IsTurnOf(session_id)
            /\ request'.SpeechResult = "ten lakhs" )
          => ( /\ Get(sessions'[session_id], "total_income", "unknown") = "1000000"
               /\ PendingFollowUpType(sessions'[session_id]) # "total_income" )]_vars

\* A follow-up of one of the four types is pending in session and its
\* extractor finds nothing in the utterance.
SlotExtractionFails(session, raw_speech) ==
    /\ Strip(raw_speech) # ""
    /\ ~IsFarewell(Strip(raw_speech))
    /\ PendingFollowUp(session) # ""
    /\ PendingFollowUpType(session) \in SlotTypes
    /\ ~SlotFound(PendingFollowUpType(session), Strip(raw_speech))

\* C9: a turn whose slot extractor fails on the utterance while a follow-up
\* of one of the four types is pending answers with the re-prompt of that
\* type and leaves the session as it was: the pending follow-up, its type,
\* every profile slot and last_query keep their values, turn after turn.
C9_FailedSlotKeepsSession ==
    [][\A session_id \in SessionIds :
          ( /\ Has(sessions, session_id)
            /\ IsTurnOf(session_id)
            /\ SlotExtractionFails(sessions[session_id], request'.SpeechResult) )
          => ( /\ sessions' = sessions
               /\ twiml' = <<Say(RepromptOf(PendingFollowUpType(sessions[session_id]))),
                             Gather("")>> )]_vars

\* A failed turn has been answered: the caller gave the income, then an
\* utterance naming no income source, and is asked for the sources again.
C9_Witness ==
    \E session_id \in SessionIds :
        /\ Has(sessions, session_id)
        /\ request = Request("process_tax_speech", session_id, "Yes")
        /\ twiml = <<Say(RepromptOf("income_sources")), Gather("")>>
        /\ PendingFollowUp(sessions[session_id]) = AskSourcesNext
        /\ PendingFollowUpType(sessions[session_id]) = "income_sources"
        /\ Get(sessions[session_id], "total_income", "unknown") = "1000000"
        /\ Has(sessions[session_id], "last_query")

\* C11: a turn whose utterance contains goodbye, end call, thank you or bye
\* ends the session and clears its state: after it the session id holds no
\* pending follow-up and no profile data.
C11_FarewellClearsSession ==
    [][\A session_id \in SessionIds :
          ( /\ IsTurnOf(session_id)
            /\ Strip(request'.SpeechResult) # ""
            /\ IsFarewell(Strip(request'.SpeechResult)) )
          => ( \/ ~Has(sessions', session_id)
               \/ /\ PendingFollowUp(sessions'[session_id]) = ""
                  /\ PendingFollowUpType(sessions'[session_id]) = ""
                  /\ GetUserTaxProfile(sessions'[session_id])
                         = GetUserTaxProfile(EmptyDict) )]_vars

----------------------------------------------------------------------------
\* The slots of the filing flow, in the order they are asked for.
FilingFlow == <<"total_income", "income_sources", "previous_itr_filed">>

\* The slot asked for after slot in the filing flow, "" after the last.
NextSlot(slot) ==
    LET i == CHOOSE k \in 1..Len(FilingFlow) : FilingFlow[k] = slot
    IN  IF i < Len(FilingFlow) THEN FilingFlow[i + 1] ELSE ""

SlotUnknown(session, slot) ==
    IF slot = "income_sources"
    THEN GetUserTaxProfile(session)[slot] = <<"unknown">>
    ELSE GetUserTaxProfile(session)[slot] = "unknown"

\* C24: a turn whose extractor finds the value of the pending slot of the
\* filing flow stores it in the profile, and after the turn the next slot
\* of the flow is pending if it is still unknown, and nothing is pending
\* otherwise.
C24_ChainedSlotFilling ==
    [][\A session_id \in SessionIds :
          ( /\ Has(sessions, session_id)
            /\ IsTurnOf(session_id)
            /\ Strip(request'.SpeechResult) # ""
            /\ ~IsFarewell(Strip(request'.SpeechResult))
            /\ PendingFollowUp(sessions[session_id]) # ""
            /\ InSeq(PendingFollowUpType(sessions[session_id]), FilingFlow)
            /\ SlotFound(PendingFollowUpType(sessions[session_id]),
                         Strip(request'.SpeechResult)) )
          => LET slot == PendingFollowUpType(sessions[session_id])
                 after == sessions'[session_id]
             IN  /\ ~SlotUnknown(after, slot)
                 /\ IF NextSlot(slot) # "" /\ SlotUnknown(after, NextSlot(slot))
                    THEN /\ PendingFollowUp(after) # ""
                         /\ PendingFollowUpType(after) = NextSlot(slot)
                    ELSE /\ PendingFollowUp(after) = ""
                         /\ PendingFollowUpType(after) = ""]_vars

----------------------------------------------------------------------------
(* The pending follow-up of a session between two turns, under SpecDialog *)

\* C28: after every completed turn of /voice and /process_tax_speech a
\* session holds pending_follow_up if and only if it holds
\* pending_follow_up_type, and the type is one of total_income,
\* income_sources, previous_itr_filed, current_deductions and is the type
\* of the stored question.
C28_PendingQuestionAndTypeTogether ==
    \A session_id \in DOMAIN sessions :
        LET session == sessions[session_id]
        IN  /\ Has(session, "pending_follow_up") <=> Has(session, "pending_follow_up_type")
            /\ Has(session, "pending_follow_up") =>
                   /\ session["pending_follow_up"] # ""
                   /\ session["pending_follow_up_type"] \in SlotTypes
                   /\ session["pending_follow_up_type"]
                          = FollowUpTypeOf(session["pending_follow_up"])

\* A turn filled total_income and left the question about the sources.
C28_Witness ==
    /\ request.endpoint = "process_tax_speech"
    /\ Has(sessions, request.CallSid)
    /\ Has(sessions[request.CallSid], "total_income")
    /\ Has(sessions[request.CallSid], "pending_follow_up")
    /\ sessions[request.CallSid]["pending_follow_up"] = AskSourcesNext
    /\ sessions[request.CallSid]["pending_follow_up_type"] = "income_sources"

----------------------------------------------------------------------------
(* Claims about concurrent turns, checked under SpecConc *)

AllDone == \A t \in Threads : turn[t].pc = "done"

\* sessions after the request of thread a and then the request of thread b,
\* one after the other, from the sessions the two requests met.
OneAfterTheOther(a, b) ==
    ProcessTaxSpeechOutcome(
        ProcessTaxSpeechOutcome(sessions_before, 0, turn[a].speech, ConcSessionId,
                                turn[a].env).sessions,
        0, turn[b].speech, ConcSessionId, turn[b].env).sessions

\* C10: two turns that run concurrently on one session id leave the session
\* that running them in some order, one after the other, leaves, and no
\* turn fails on a key the other has deleted.
C10_TurnsSerializable ==
    AllDone =>
        /\ \A t \in Threads : ~turn[t].failed
        /\ \E a \in Threads : \E b \in Threads \ {a} : sessions = OneAfterTheOther(a, b)

----------------------------------------------------------------------------
(* fastapi/app.py: chat_query and save_chat_query *)

\* What collection.query does on one chat query: it raises (so does a
\* failing embedding), or it returns a result whose 'documents' is missing
\* or holds the list of the passages found, at most n_results of them.
ChatStoreOutcomes ==
    { [kind |-> "raises", documents |-> <<>>],
      [kind |-> "no_documents", documents |-> <<>>],
      [kind |-> "results", documents |-> <<>>],
      [kind |-> "results", documents |-> <<"Section 80C allows 1.5 lakh.">>],
      [kind |-> "results",
       documents |-> <<"Section 80C allows 1.5 lakh.", "HRA needs rent receipts.",
                       "New regime slabs.", "Old regime slabs.", "Cess is 4%.">>] }

\* Lines 913-923: the context and sources_used after the vector search.
ChatVectorSearch_CountsRequested(chromadb_available, store) ==
    IF chromadb_available /\ store.kind = "results" /\ store.documents # <<>>
    THEN [context |-> Join(store.documents, "\n"), sources_used |-> Len(store.documents)]
    ELSE [context |-> "", sources_used |-> IF chromadb_available THEN 5 ELSE 0]

ChatVectorSearch(chromadb_available, store) ==
    IF chromadb_available /\ store.kind = "results"
    THEN [context |-> IF store.documents # <<>> THEN Join(store.documents, "\n") ELSE "",
          sources_used |-> Len(store.documents)]
    ELSE [context |-> "", sources_used |-> 0]

\* The text Groq returns when it answers a chat query.
ChatAnswer == "Invest in ELSS or PPF to use Section 80C."

\* The HTTP response of chat_query, with the context it gave to the LLM.
ChatReply(status, answer, sources_used, confidence, context) ==
    [status |-> status, answer |-> answer, sources_used |-> sources_used,
     confidence |-> confidence, context |-> context]

\* chat_query on the request q: <<the response, the row saved or none>>
ChatQueryOutcome(q) ==
    IF Len(Strip(q.question)) = 0
    THEN [reply |-> ChatReply(422, "", 0, "", ""), saved |-> FALSE]
    ELSE IF ~q.groq_available
    THEN [reply |-> ChatReply(200,
              "AI chat is currently unavailable. Please install the 'groq' library and set GROQ_API_KEY.",
              0, "low", ""),
          saved |-> TRUE]
    ELSE IF ~q.groq_api_key
    THEN [reply |-> ChatReply(200,
              "AI chat is currently unavailable. Please set up GROQ_API_KEY environment variable.",
              0, "low", ""),
          saved |-> TRUE]
    ELSE LET found == ChatVectorSearch(q.chromadb_available, q.store)
         IN  IF q.groq = "ok"
             THEN [reply |-> ChatReply(200, ChatAnswer, found.sources_used,
                                       IF found.context # "" THEN "high" ELSE "medium",
                                       found.context),
                   saved |-> TRUE]
             ELSE [reply |-> ChatReply(200,
                       "I understand you're asking about: " \o q.question
                       \o ". However, I'm currently unable to access the AI service. For tax-related queries, I recommend consulting with a qualified tax professional or checking the latest information on incometax.gov.in",
                       found.sources_used, "low", found.context),
                   saved |-> TRUE]

----------------------------------------------------------------------------
(* SpecChat: one POST /chat/query *)

Questions == {"", "   ", "How much tax on 12 lakh?", "Is HRA exempt?"}

ChatRequests ==
    [question : Questions, groq_available : BOOLEAN, groq_api_key : BOOLEAN,
     chromadb_available : BOOLEAN, store : ChatStoreOutcomes, groq : {"ok", "raises"}]

InitChat ==
    /\ TaxIdle
    /\ BracketIdle
    /\ DialogIdle
    /\ ConcIdle
    /\ CallIdle
    /\ chat_in \in ChatRequests
    /\ chat_out = NoCall
    /\ chat_queries = <<>>

\* POST /chat/query with the body and the surroundings of chat_in
ChatQuery ==
    /\ chat_out = NoCall
    /\ \E out \in {ChatQueryOutcome(chat_in)} :
           /\ chat_out' = [called |-> TRUE] @@ out.reply
           /\ chat_queries' =
                  IF out.saved
                  THEN Append(chat_queries,
                              [question |-> chat_in.question, answer |-> out.reply.answer,
                               sources_used |-> out.reply.sources_used,
                               confidence |-> out.reply.confidence])
                  ELSE chat_queries
    /\ UNCHANGED <<chat_in, taxVars, bracketVars, dialogVars, concVars, callVars>>

NextChat == ChatQuery

SpecChat == InitChat /\ [][NextChat]_vars

----------------------------------------------------------------------------
(* Claims about chat_query, checked under SpecChat *)

\* chat_query has answered a request with a question.
ChatAnswered == chat_out.called /\ Len(Strip(chat_in.question)) > 0

\* C12: when the knowledge store raises on the query, chat_query still
\* returns a response whose answer is a non-empty string and whose
\* sources_used is 0.
C12_StoreFailureNotPropagated ==
    (ChatAnswered /\ chat_in.store.kind = "raises")
        => /\ chat_out.status = 200
           /\ chat_out.answer # ""
           /\ chat_out.sources_used = 0

\* The store was queried and raised, and Groq answered.
C12_Witness ==
    /\ ChatAnswered
    /\ chat_in.groq_available /\ chat_in.groq_api_key /\ chat_in.chromadb_available
    /\ chat_in.store.kind = "raises"
    /\ chat_in.groq = "ok"
    /\ chat_out.answer = ChatAnswer
    /\ Len(chat_queries) = 1

\* C13: when the knowledge store is missing or raises, the response is
\* produced from an empty context and its confidence is "low", whether or
\* not the LLM call succeeds.
C13_RetrievalUnavailableIsLow ==
    (ChatAnswered /\ (~chat_in.chromadb_available \/ chat_in.store.kind = "raises"))
        => /\ chat_out.context = ""
           /\ chat_out.confidence = "low"

----------------------------------------------------------------------------
(* SpecAdvisor: one call of a method of TaxFilingAdvisor, taken alone *)

\* n_results of the query to the collection.
n_results == 5

\* The documents of a collection, as the store ranks them.
RankedDocs ==
    <<Doc("ITR-1 is for salary income.", 10), Doc("Due date is July 31st.", 35),
      Doc("Section 80C limit is 1.5 lakh.", 59), Doc("HRA needs rent receipts.", 60),
      Doc("Cess is 4 percent.", 72), Doc("GST is not income tax.", 85)>>

\* The documents of RankedDocs at the positions in which, in ranking order.
RECURSIVE Ranked(_)
Ranked(which) ==
    IF which = {} THEN <<>>
    ELSE LET first == CHOOSE i \in which : \A j \in which : i <= j
         IN  <<RankedDocs[first]>> \o Ranked(which \ {first})

\* What the store may do on a query for n_results documents.
StoreCases ==
    {NoCollection, StoreRaises}
        \cup { [kind |-> "results", docs |-> Ranked(which)] :
                 which \in {w \in SUBSET (1..Len(RankedDocs)) : Cardinality(w) <= n_results} }

\* What a provider does when asked: no client, an answer, an exception.
ProviderOutcomes == {"absent", "ok", "raises"}

AdvisorEnvs ==
    [store : {NearAndFar}, groq : ProviderOutcomes, gemini : ProviderOutcomes,
     day_rolled : BOOLEAN]

AdvisorQueries ==
    {"which tax regime is better", "What deductions can I claim under 80C?",
     "Is there a penalty for late payment?", "Hello there", "How to file tax return"}

AdvisorCalls ==
    [fn : {"get_ai_response", "generate_tax_response"}, text : AdvisorQueries,
     env : AdvisorEnvs]
        \cup [fn : {"query_tax_collection"}, text : {"How to file tax return"},
              env : [store : StoreCases, groq : {"absent"}, gemini : {"absent"},
                     day_rolled : {FALSE}]]

InitAdvisor ==
    /\ TaxIdle
    /\ BracketIdle
    /\ ConcIdle
    /\ ChatIdle
    /\ sessions = Put(EmptyDict, ConcSessionId, EmptyDict)
    /\ gemini_requests_count \in {0, max_gemini_requests - 1, max_gemini_requests}
    /\ request = NoRequest
    /\ twiml = <<>>
    /\ call_args \in AdvisorCalls
    /\ call_result = NoCall

AdvisorFrame ==
    UNCHANGED <<taxVars, bracketVars, concVars, chatVars, request, twiml, call_args>>

\* advisor.get_ai_response(text)
CallGetAIResponse ==
    /\ call_result = NoCall
    /\ call_args.fn = "get_ai_response"
    /\ \E ai \in {GetAIResponse(call_args.text, call_args.env, gemini_requests_count)} :
           /\ call_result' = [called |-> TRUE] @@ ai
           /\ gemini_requests_count' = ai.count
    /\ UNCHANGED sessions
    /\ AdvisorFrame

\* advisor.query_tax_collection(text, category)
CallQueryTaxCollection ==
    /\ call_result = NoCall
    /\ call_args.fn = "query_tax_collection"
    /\ call_result' = [called |-> TRUE,
                       entries |-> QueryTaxCollection(call_args.env.store)]
    /\ UNCHANGED <<sessions, gemini_requests_count>>
    /\ AdvisorFrame

\* advisor.generate_tax_response(text, session_id)
CallGenerateTaxResponse ==
    /\ call_result = NoCall
    /\ call_args.fn = "generate_tax_response"
    /\ \E g \in {GenerateTaxResponse(sessions, gemini_requests_count, call_args.text,
                                     ConcSessionId, call_args.env)} :
           /\ call_result' = [called |-> TRUE, response |-> g.response,
                              follow_up |-> g.follow_up]
           /\ sessions' = g.sessions
           /\ gemini_requests_count' = g.count
    /\ AdvisorFrame

NextAdvisor == CallGetAIResponse \/ CallQueryTaxCollection \/ CallGenerateTaxResponse

SpecAdvisor == InitAdvisor /\ [][NextAdvisor]_vars

----------------------------------------------------------------------------
(* Claims about TaxFilingAdvisor, checked under SpecAdvisor *)

ReturnedFrom(fn) == call_result.called /\ call_args.fn = fn

C15_TemplateByQueryKeywords ==
    ( /\ ReturnedFrom("generate_tax_response")
      /\ call_args.env.groq # "ok"
      /\ call_args.env.gemini # "ok" )
        => call_result.response = GetTaxRuleBasedResponse(call_args.text)

SentinelTexts ==
    {"No specific information found for your query.",
     "Unable to retrieve tax information at the moment.",
     "Tax information not available."}

\* C17: query_tax_collection never returns an empty list: when the
\* category has no collection, when the store raises, or when no result
\* passes the distance filter, it returns exactly one sentinel entry with
\* empty metadata.
C17_SentinelOnNoResult ==
    ReturnedFrom("query_tax_collection") =>
        LET store == call_args.env.store
            entries == call_result.entries
        IN  /\ entries # <<>>
            /\ ( \/ store.kind \in {"none", "raises"}
                 \/ \A i \in 1..Len(store.docs) : store.docs[i].distance >= 60 )
                   => /\ Len(entries) = 1
                      /\ entries[1].content \in SentinelTexts
                      /\ entries[1].metadata = EmptyDict

\* The store returned documents, none of them below the cutoff.
C17_Witness ==
    /\ ReturnedFrom("query_tax_collection")
    /\ call_args.env.store.kind = "results"
    /\ Len(call_args.env.store.docs) = 3
    /\ call_result.entries = <<Sentinel("No specific information found for your query.")>>

----------------------------------------------------------------------------
(* Python floats.  A statement's amounts are float(...) of decimal text,   *)
(* and _analyze_financial_data adds, subtracts, multiplies and compares    *)
(* them as IEEE-754 binary64 numbers: every result is the exact result     *)
(* rounded to 53 significant bits, ties to even.  A number is s * m * 2^e, *)
(* m a natural number written in digits, lowest digit first.               *)

mant_dig == 53

\* The base of the digits: its square stays within TLC's integers.
Limb == 128 * 128

RECURSIVE BitLen(_)
BitLen(n) == IF n = 0 THEN 0 ELSE 1 + BitLen(n \div 2)

LimbBits == BitLen(Limb) - 1

RECURSIVE Pow2(_)
Pow2(k) == IF k = 0 THEN 1 ELSE 2 * Pow2(k - 1)

RECURSIVE LTrim(_)
LTrim(a) == IF a # <<>> /\ a[Len(a)] = 0 THEN LTrim(SubSeq(a, 1, Len(a) - 1)) ELSE a

RECURSIVE LOf(_)
LOf(n) == IF n = 0 THEN <<>> ELSE <<n % Limb>> \o LOf(n \div Limb)

LimbAt(a, i) == IF i <= Len(a) THEN a[i] ELSE 0

RECURSIVE LAddFrom(_, _, _, _)
LAddFrom(a, b, i, carry) ==
    IF i > Len(a) /\ i > Len(b)
    THEN IF carry = 1 THEN <<1>> ELSE <<>>
    ELSE LET s == LimbAt(a, i) + LimbAt(b, i) + carry
         IN  <<s % Limb>> \o LAddFrom(a, b, i + 1, s \div Limb)

LAdd(a, b) == LAddFrom(a, b, 1, 0)

\* a - b for a >= b
RECURSIVE LSubFrom(_, _, _, _)
LSubFrom(a, b, i, borrow) ==
    IF i > Len(a) THEN <<>>
    ELSE LET s == LimbAt(a, i) - LimbAt(b, i) - borrow
         IN  <<s % Limb>> \o LSubFrom(a, b, i + 1, IF s < 0 THEN 1 ELSE 0)

LSub(a, b) == LTrim(LSubFrom(a, b, 1, 0))

\* a < b
RECURSIVE LLessFrom(_, _, _)
LLessFrom(a, b, i) ==
    IF i = 0 THEN FALSE
    ELSE IF a[i] # b[i] THEN a[i] < b[i]
    ELSE LLessFrom(a, b, i - 1)

LLess(a, b) ==
    IF Len(a) # Len(b) THEN Len(a) < Len(b) ELSE LLessFrom(a, b, Len(a))

\* a * c for 0 <= c <= Limb
RECURSIVE LScaleFrom(_, _, _, _)
LScaleFrom(a, c, i, carry) ==
    IF i > Len(a) THEN LOf(carry)
    ELSE LET p == a[i] * c + carry
         IN  <<p % Limb>> \o LScaleFrom(a, c, i + 1, p \div Limb)

LScale(a, c) == LTrim(LScaleFrom(a, c, 1, 0))

RECURSIVE LMul(_, _)
LMul(a, b) ==
    IF a = <<>> \/ b = <<>> THEN <<>>
    ELSE LET rest == LMul(Tail(a), b)
         IN  LAdd(LScale(b, a[1]), IF rest = <<>> THEN <<>> ELSE <<0>> \o rest)

\* quotient and remainder of a by d, 0 < d <= Limb, from the highest digit
RECURSIVE LDivFrom(_, _, _, _)
LDivFrom(a, d, i, rem) ==
    IF i = 0 THEN [q |-> <<>>, r |-> rem]
    ELSE LET cur == rem * Limb + a[i]
             rest == LDivFrom(a, d, i - 1, cur % d)
         IN  [q |-> Append(rest.q, cur \div d), r |-> rest.r]

LDiv(a, d) == LET x == LDivFrom(a, d, Len(a), 0) IN [q |-> LTrim(x.q), r |-> x.r]

\* the number of bits of a
LBits(a) == IF a = <<>> THEN 0 ELSE LimbBits * (Len(a) - 1) + BitLen(a[Len(a)])

\* a * 2^k
LShl(a, k) ==
    IF a = <<>> THEN <<>>
    ELSE [i \in 1..(k \div LimbBits) |-> 0] \o LScale(a, Pow2(k % LimbBits))

\* a \div 2^k, and whether bits were lost
LShr(a, k) ==
    LET n == Min(k \div LimbBits, Len(a))
        x == LDiv(SubSeq(a, n + 1, Len(a)), Pow2(k % LimbBits))
    IN  [q |-> x.q, lost |-> x.r # 0 \/ \E i \in 1..n : a[i] # 0]

FZero == [s |-> 1, m |-> <<>>, e |-> 0]

\* The same number with an odd m: equal numbers are equal records.
RECURSIVE Canon(_)
Canon(x) ==
    IF x.m = <<>> THEN FZero
    ELSE IF x.m[1] = 0 THEN Canon([x EXCEPT !.m = Tail(@), !.e = @ + LimbBits])
    ELSE IF x.m[1] % 2 = 0 THEN Canon([x EXCEPT !.m = LDiv(@, 2).q, !.e = @ + 1])
    ELSE x

\* Round to mant_dig bits, ties to even; sticky tells that the exact
\* number is a little above s * m * 2^e.
RoundNearest(x, sticky) ==
    LET k == LBits(x.m) - mant_dig
    IN  IF k <= 0 THEN Canon(x)
        ELSE LET y == LShr(x.m, k - 1)
                 guard == y.q[1] % 2
                 kept == LDiv(y.q, 2).q
                 up == guard = 1 /\ (y.lost \/ sticky \/ kept[1] % 2 = 1)
             IN  Canon([s |-> x.s,
                        m |-> IF up THEN LAdd(kept, <<1>>) ELSE kept,
                        e |-> x.e + k])

\* float(n) of a Python int
FInt(n) ==
    IF n < 0 THEN Canon([s |-> -1, m |-> LOf(-n), e |-> 0])
    ELSE Canon([s |-> 1, m |-> LOf(n), e |-> 0])

\* float() of decimal text n/d, d a power of ten: the float nearest to n/d
FRatio(n, d) ==
    IF n = 0 THEN FZero
    ELSE LET up == 2 * mant_dig
             x == LDiv(LShl(LOf(n), up), d)
         IN  RoundNearest([s |-> 1, m |-> x.q, e |-> -up], x.r # 0)

\* x's m written for the exponent e <= x.e
Scaled(x, e) == LShl(x.m, x.e - e)

FNeg(x) == IF x.m = <<>> THEN x ELSE [x EXCEPT !.s = -@]

FAdd(x, y) ==
    IF x.m = <<>> THEN y
    ELSE IF y.m = <<>> THEN x
    ELSE LET e == Min(x.e, y.e)
             a == Scaled(x, e)
             b == Scaled(y, e)
         IN  IF x.s = y.s
             THEN RoundNearest([s |-> x.s, m |-> LAdd(a, b), e |-> e], FALSE)
             ELSE IF LLess(a, b)
             THEN RoundNearest([s |-> y.s, m |-> LSub(b, a), e |-> e], FALSE)
             ELSE RoundNearest([s |-> x.s, m |-> LSub(a, b), e |-> e], FALSE)

FSub(x, y) == FAdd(x, FNeg(y))

FMul(x, y) ==
    RoundNearest([s |-> x.s * y.s, m |-> LMul(x.m, y.m), e |-> x.e + y.e], FALSE)

\* x < y
FLess(x, y) ==
    IF x.m = <<>> THEN y.m # <<>> /\ y.s = 1
    ELSE IF y.m = <<>> THEN x.s = -1
    ELSE IF x.s # y.s THEN x.s < y.s
    ELSE LET e == Min(x.e, y.e)
             a == Scaled(x, e)
             b == Scaled(y, e)
         IN  IF x.s = 1 THEN LLess(a, b) ELSE LLess(b, a)

\* Python's min(x, y): y only when it is smaller
FMin(x, y) == IF FLess(y, x) THEN y ELSE x

----------------------------------------------------------------------------
(* SpecLedger: _analyze_financial_data on amounts with paise.  The         *)
(* amounts are the floats the parsers make of the statement's text, the    *)
(* sums are float sums.                                                     *)

\* float(amount_val) for an amount written with two decimals, given in paise
Amount(paise) == FRatio(paise, 100)

LedgerCatalogue ==
    { Tx("Salary", Amount(10010), "income", "credit"),
      Tx("Salary arrears", Amount(20020), "income", "credit"),
      Tx("Bonus", Amount(30030), "income", "credit"),
      Tx("ELSS SIP", Amount(10000050), "sip", "debit"),
      Tx("Health insurance parents", Amount(6000000), "insurance", "debit"),
      Tx("Home loan EMI", Amount(15000001), "emi", "debit"),
      Tx("Charity", Amount(30030), "other", "debit") }

\* deductions[section] += min(amount, limit - deductions[section])
FAddCapped(d, section, amount) ==
    [d EXCEPT ![section] =
        FAdd(@, FMin(amount, FSub(FInt(deduction_limits[section]), @)))]

\* deductions['80D'] += min(amount, limit)
FAdd80D(d, amount, limit_key) ==
    [d EXCEPT !["80D"] = FAdd(@, FMin(amount, FInt(deduction_limits[limit_key])))]

\* interest_portion = amount * 0.7
FInterestPortion(amount) == FMul(amount, FRatio(7, 10))

\* The if/elif chain on one transaction, on floats.
FScanTransaction(t, income, d) ==
    LET amount == t.amount
        category == t.category
        description == Lower(t.description)
    IN  IF category = "income" \/ t.transaction_type = "credit" THEN
            IF ContainsAny(description, {"salary", "wage", "bonus"})
            THEN <<FAdd(income, amount), d>>
            ELSE <<income, d>>
        ELSE IF category = "sip" \/ Contains(description, "sip") THEN
            IF Contains(description, "elss")
            THEN <<income, FAddCapped(d, "80C", amount)>>
            ELSE <<income, d>>
        ELSE IF category = "insurance" \/ Contains(description, "insurance") THEN
            IF Contains(description, "health") \/ Contains(description, "medical")
            THEN IF Contains(description, "parent")
                 THEN <<income, FAdd80D(d, amount, "80D_parents")>>
                 ELSE <<income, FAdd80D(d, amount, "80D")>>
            ELSE <<income, d>>
        ELSE IF category = "emi" /\ Contains(description, "home loan") THEN
            <<income, FAddCapped(d, "24b", FInterestPortion(amount))>>
        ELSE IF Contains(description, "donation") \/ Contains(description, "charity") THEN
            <<income, [d EXCEPT !["80G"] = FAdd(@, amount)]>>
        ELSE IF Contains(description, "interest") /\ t.transaction_type = "credit" THEN
            IF Contains(description, "savings")
            THEN <<income, FAddCapped(d, "80TTA", amount)>>
            ELSE <<income, d>>
        ELSE IF Contains(description, "education loan") THEN
            <<income, [d EXCEPT !["80E"] = FAdd(@, amount)]>>
        ELSE <<income, d>>

\* category_totals after one transaction
FScanCategoryTotals(t, ct) ==
    IF t.transaction_type = "debit"
    THEN [ct EXCEPT ![t.category] = FAdd(@, t.amount)]
    ELSE ct

\* sum(deductions.values()), in the order the dict was written
FSumDeductions(d) ==
    FAdd(FAdd(FAdd(FAdd(FAdd(FAdd(FZero, d["80C"]), d["80D"]), d["24b"]),
                   d["80G"]), d["80TTA"]), d["80E"])

\* The dict _analyze_financial_data returns.
Analysis(income, d, ct) ==
    [total_income |-> income,
     total_deductions |-> FSumDeductions(d),
     deductions |-> d,
     category_totals |-> ct]

LedgerCategories == {t.category : t \in LedgerCatalogue}

InitLedger ==
    /\ transactions \in SeqsUpTo(LedgerCatalogue, MaxTx)
    /\ idx = 0
    /\ income_total = FZero
    /\ deductions = [s \in LedgerSections |-> FZero]
    /\ category_totals = [c \in LedgerCategories |-> FZero]
    /\ pc = "scan"
    /\ result = NoResult
    /\ BracketIdle
    /\ DialogIdle
    /\ ConcIdle
    /\ ChatIdle
    /\ CallIdle

\* One iteration of the loop.
LedgerStep ==
    /\ pc = "scan"
    /\ idx < Len(transactions)
    /\ LET t == transactions[idx + 1]
       IN  /\ \E after \in {FScanTransaction(t, income_total, deductions)} :
                 /\ income_total' = after[1]
                 /\ deductions' = after[2]
           /\ category_totals' = FScanCategoryTotals(t, category_totals)
    /\ idx' = idx + 1
    /\ UNCHANGED <<transactions, pc, result, bracketVars, dialogVars, concVars, chatVars, callVars>>

\* The loop is over: the totals are summed and returned.
LedgerReturn ==
    /\ pc = "scan"
    /\ idx = Len(transactions)
    /\ result' = Analysis(income_total, deductions, category_totals)
    /\ pc' = "returned"
    /\ UNCHANGED <<transactions, idx, income_total, deductions, category_totals,
                   bracketVars, dialogVars, concVars, chatVars, callVars>>

NextLedger == LedgerStep \/ LedgerReturn

SpecLedger == InitLedger /\ [][NextLedger]_vars

\* _analyze_financial_data as a function of the list: the loop from the i-th
\* transaction on.
RECURSIVE AnalyzeFrom(_, _, _, _)
AnalyzeFrom(txs, i, income, d) ==
    IF i > Len(txs)
    THEN [total_income |-> income, total_deductions |-> FSumDeductions(d), deductions |-> d]
    ELSE LET after == FScanTransaction(txs[i], income, d)
         IN  AnalyzeFrom(txs, i + 1, after[1], after[2])

\* C18: the deduction ledger, the total income and the total deductions
\* _analyze_financial_data returns are the same for every reordering of
\* the list of transactions.
C18_OrderIndependent ==
    pc = "returned" =>
        \A p \in Permutations(1..Len(transactions)) :
            LET reordered == [i \in 1..Len(transactions) |-> transactions[p[i]]]
                other == AnalyzeFrom(reordered, 1, FZero, [s \in LedgerSections |-> FZero])
            IN  /\ other.total_income = result.total_income
                /\ other.total_deductions = result.total_deductions
                /\ other.deductions = result.deductions

----------------------------------------------------------------------------
(* Spec: the 80D figure *)

\* The transaction reaches the health-insurance branch of the chain.
IsHealthPremium(t) ==
    LET description == Lower(t.description)
    IN  /\ ~(t.category = "income" \/ t.transaction_type = "credit")
        /\ ~(t.category = "sip" \/ Contains(description, "sip"))
        /\ t.category = "insurance" \/ Contains(description, "insurance")
        /\ Contains(description, "health") \/ Contains(description, "medical")

IsParentsPremium(t) == IsHealthPremium(t) /\ Contains(Lower(t.description), "parent")

IsSelfPremium(t) == IsHealthPremium(t) /\ ~IsParentsPremium(t)

\* The sum of the amounts of txs.
RECURSIVE SumAmounts(_)
SumAmounts(txs) ==
    IF txs = <<>> THEN 0 ELSE Head(txs).amount + SumAmounts(Tail(txs))

\* C19: the reported 80D deduction is min(25000, sum of the self premiums)
\* + min(50000, sum of the parents' premiums).
C19_80DSubTotalsCapped ==
    pc = "done" =>
        result.deductions["80D"] =
            Min(deduction_limits["80D"], SumAmounts(SelectSeq(transactions, IsSelfPremium)))
            + Min(deduction_limits["80D_parents"], SumAmounts(SelectSeq(transactions, IsParentsPremium)))

----------------------------------------------------------------------------
(* SpecClassify: the two transaction classifiers on one description *)

Entry(category, keywords) == [category |-> category, keywords |-> keywords]

\* The dict FINANCIAL_CATEGORIES, in the order it is written.
FINANCIAL_CATEGORIES ==
    << Entry("income", {"salary", "freelance", "dividend", "interest", "bonus", "refund"}),
       Entry("emi", {"emi", "loan", "mortgage", "car loan", "home loan", "personal loan"}),
       Entry("sip", {"sip", "mutual fund", "systematic", "investment", "elss"}),
       Entry("rent", {"rent", "house rent", "apartment", "accommodation"}),
       Entry("insurance", {"insurance", "premium", "life insurance", "health insurance"}),
       Entry("utilities", {"electricity", "gas", "water", "internet", "mobile", "phone"}),
       Entry("food", {"restaurant", "food", "grocery", "supermarket", "dining"}),
       Entry("transport", {"fuel", "petrol", "taxi", "uber", "ola", "metro", "bus"}),
       Entry("entertainment", {"movie", "entertainment", "netflix", "spotify", "game"}),
       Entry("shopping", {"shopping", "amazon", "flipkart", "clothing", "electronics"}),
       Entry("medical", {"hospital", "doctor", "medical", "pharmacy", "medicine"}),
       Entry("education", {"school", "college", "course", "book", "education", "tuition"}) >>

\* categorize_transaction without its last line: falls off the end.
CategorizeTransaction_NoDefault(description) ==
    LET description_lower == Lower(description)
        hits == SelectSeq(FINANCIAL_CATEGORIES,
                          LAMBDA c : ContainsAny(description_lower, c.keywords))
    IN  IF hits # <<>> THEN hits[1].category
        ELSE IF ContainsAny(description_lower, {"transfer", "payment", "debit"})
        THEN "other_expense"
        ELSE IF ContainsAny(description_lower, {"credit", "deposit"})
        THEN "other_income"
        ELSE "None"

\* FinancialProcessor.categorize_transaction: the first category, in the
\* order of the dict, one of whose keywords is in the description
CategorizeTransaction(description) ==
    LET description_lower == Lower(description)
        hits == SelectSeq(FINANCIAL_CATEGORIES,
                          LAMBDA c : ContainsAny(description_lower, c.keywords))
    IN  IF hits # <<>> THEN hits[1].category
        ELSE IF ContainsAny(description_lower, {"transfer", "payment", "debit"})
        THEN "other_expense"
        ELSE IF ContainsAny(description_lower, {"credit", "deposit"})
        THEN "other_income"
        ELSE "uncategorized"

\* TransactionCategorizer.fallback_categories
fallback_categories ==
    <<"income", "emi", "sip", "rent", "insurance", "utilities", "food", "transport",
      "shopping", "entertainment", "healthcare", "education", "other">>

\* TransactionCategorizer._fallback_categorization; None is written "None"
FallbackCategorization(description, amount) ==
    LET description_lower == Lower(description)
    IN  IF ContainsAny(description_lower,
                       {"salary", "wage", "bonus", "dividend", "interest", "refund", "cashback"})
        THEN [category |-> "income",
              subcategory |-> IF Contains(description_lower, "salary") THEN "salary" ELSE "None",
              confidence_score |-> 80,
              is_recurring |-> Contains(description_lower, "salary"),
              reasoning |-> "Rule-based: Income keywords detected"]
        ELSE IF ContainsAny(description_lower, {"emi", "loan", "mortgage"})
        THEN [category |-> "emi",
              subcategory |-> IF Contains(description_lower, "home") THEN "home_loan" ELSE "None",
              confidence_score |-> 85,
              is_recurring |-> TRUE,
              reasoning |-> "Rule-based: EMI/Loan keywords detected"]
        ELSE IF ContainsAny(description_lower, {"sip", "mutual fund", "elss", "investment"})
        THEN [category |-> "sip",
              subcategory |-> IF Contains(description_lower, "elss") THEN "elss" ELSE "None",
              confidence_score |-> 85,
              is_recurring |-> TRUE,
              reasoning |-> "Rule-based: Investment keywords detected"]
        ELSE [category |-> "other",
              subcategory |-> "None",
              confidence_score |-> 30,
              is_recurring |-> FALSE,
              reasoning |-> "Rule-based: No clear pattern found"]

\* Descriptions of statements, with the empty one and some noise.
Descriptions ==
    {"", " ", "@@##", "12345", "UPI/9876/XYZ", "SALARY CREDIT ACME LTD", "Annual Bonus",
     "HOME LOAN EMI HDFC", "Car Loan", "ELSS SIP AXIS", "Mutual Fund purchase",
     "House Rent June", "LIC Premium", "Health Insurance", "Electricity bill",
     "Grocery supermarket", "Uber trip", "Netflix", "Amazon order", "Apollo Pharmacy",
     "College tuition", "NEFT Transfer", "Card payment", "Cash deposit", "ATM WDL",
     "Savings interest credit", "Cashback", "Wage", "Medical shop", "Bus pass",
     "LIFE INSURANCE PREMIUM", "SIP MUTUAL FUND - AXIS BLUECHIP", "NETFLIX SUBSCRIPTION",
     "APOLLO PHARMACY", "SALARY CREDIT TCS", "HOUSE RENT"}

ClassifyCalls ==
    [fn : {"categorize_transaction"}, text : Descriptions, amount : {0}]
    \cup [fn : {"_fallback_categorization"}, text : Descriptions, amount : {0, 4000}]

InitClassify ==
    /\ call_args \in ClassifyCalls
    /\ call_result = NoCall
    /\ TaxIdle
    /\ BracketIdle
    /\ DialogIdle
    /\ ConcIdle
    /\ ChatIdle

ClassifyFrame == <<taxVars, bracketVars, dialogVars, concVars, chatVars, call_args>>

CallCategorizeTransaction ==
    /\ call_args.fn = "categorize_transaction"
    /\ ~call_result.called
    /\ call_result' = [called |-> TRUE, label |-> CategorizeTransaction(call_args.text)]
    /\ UNCHANGED ClassifyFrame

CallFallbackCategorization ==
    /\ call_args.fn = "_fallback_categorization"
    /\ ~call_result.called
    /\ \E out \in {FallbackCategorization(call_args.text, call_args.amount)} :
           call_result' = [called |-> TRUE, label |-> out.category, data |-> out]
    /\ UNCHANGED ClassifyFrame

NextClassify == CallCategorizeTransaction \/ CallFallbackCategorization

SpecClassify == InitClassify /\ [][NextClassify]_vars

\* The labels categorize_transaction can return.
CategorizeLabels ==
    {FINANCIAL_CATEGORIES[i].category : i \in 1..Len(FINANCIAL_CATEGORIES)}
    \cup {"other_expense", "other_income", "uncategorized"}

\* C20: for every description, the empty one included, each classifier
\* returns one label of its fixed set, never None, and the empty
\* description gets 'uncategorized' and 'other' respectively.
C20_ClassifiersTotal ==
    /\ ReturnedFrom("categorize_transaction") =>
           /\ call_result.label \in CategorizeLabels
           /\ call_args.text = "" => call_result.label = "uncategorized"
    /\ ReturnedFrom("_fallback_categorization") =>
           /\ InSeq(call_result.label, fallback_categories)
           /\ call_args.text = "" => call_result.label = "other"

\* The empty description was classified by categorize_transaction.
C20_Witness ==
    /\ ReturnedFrom("categorize_transaction")
    /\ call_args.text = ""
    /\ call_result.label = "uncategorized"

----------------------------------------------------------------------------
(* SpecClassify: keywords named as words *)

\* The text with every character that is no word character made a space.
RECURSIVE Spaced(_)
Spaced(s) ==
    IF Len(s) = 0 THEN ""
    ELSE IF Len(s) = 1 THEN (IF IsWordChar(s) THEN s ELSE " ")
    ELSE LET h == Len(s) \div 2
         IN  Spaced(SubSeq(s, 1, h)) \o Spaced(SubSeq(s, h + 1, Len(s)))

\* The keyword stands in the description as a word, or as a run of words.
NamesAsWords(description, kw) ==
    Contains(" " \o Spaced(Lower(description)) \o " ", " " \o kw \o " ")

\* The categories one of whose keywords the description names as words.
CategoriesNamed(description) ==
    {FINANCIAL_CATEGORIES[i].category : i \in
        {j \in 1..Len(FINANCIAL_CATEGORIES) :
            \E kw \in FINANCIAL_CATEGORIES[j].keywords : NamesAsWords(description, kw)}}

\* C21: a description whose words match keywords of only one category is
\* given that category by categorize_transaction.
C21_CategoryOfNamedKeywords ==
    ReturnedFrom("categorize_transaction") =>
        \A c \in CategoriesNamed(call_args.text) :
            CategoriesNamed(call_args.text) = {c} => call_result.label = c

----------------------------------------------------------------------------
(* TransactionCategorizer with the LLM (services/transaction_categorizer.py) *)

\* What one chat completion does: it raises, or its content is a JSON
\* object with these fields, JSON that is no object, or text that is no
\* JSON.  null is written "None".
JsonReply(fields) == [kind |-> "json", fields |-> fields]

TextReply(text) == [kind |-> "text", text |-> text]

Raises == [kind |-> "raises"]

SingleReplies ==
    { Raises,
      [kind |-> "json_list"],
      JsonReply(EmptyDict),
      JsonReply(Put(EmptyDict, "category", "food")),
      JsonReply(Put(Put(EmptyDict, "category", "Food"), "confidence_score", 150)),
      JsonReply(Put(Put(EmptyDict, "category", "groceries"), "is_recurring", TRUE)),
      JsonReply(Put(EmptyDict, "category", "None")),
      TextReply("This looks like a food or grocery expense."),
      TextReply("A transport fare, certainly not income."),
      TextReply("I cannot tell.") }

\* _categorize_with_groq.  Its prompt is an f-string in which the JSON
\* sample { "category": ... } is a replacement field: the str "category"
\* is formatted with the rest of the sample as format spec, which raises
\* ValueError before the completion is requested, whatever the reply
\* would have been.
CategorizeWithGroq(description, amount, reply) == [raised |-> TRUE]

\* TransactionCategorizer.categorize_transaction
TCCategorizeTransaction(groq_client, description, amount, reply) ==
    IF groq_client
    THEN LET out == CategorizeWithGroq(description, amount, reply)
         IN  IF out.raised THEN FallbackCategorization(description, amount) ELSE out.data
    ELSE FallbackCategorization(description, amount)

\* s.split(sep)[0]
BeforeFirst(s, sep) ==
    IF Contains(s, sep)
    THEN LET i == CHOOSE k \in 1..Len(s) :
                      /\ SubSeq(s, k, k + Len(sep) - 1) = sep
                      /\ \A j \in 1..(k - 1) : SubSeq(s, j, j + Len(sep) - 1) # sep
         IN  SubSeq(s, 1, i - 1)
    ELSE s

\* s.split(sep)[1], for s that holds sep
SecondPart(s, sep) ==
    LET first == BeforeFirst(s, sep)
    IN  BeforeFirst(SubSeq(s, Len(first) + Len(sep) + 1, Len(s)), sep)

\* int(s) succeeds on digits with blanks around them
IsIntText(s) ==
    LET t == Strip(s)
    IN  Len(t) > 0 /\ \A i \in 1..Len(t) : IsDigit(SubSeq(t, i, i))

\* _extract_category_info_from_line
ExtractCategoryInfoFromLine(lines, transaction_num) ==
    LET pattern == "Transaction " \o NatToStr(transaction_num) \o ":"
        hits == SelectSeq(lines, LAMBDA l : Contains(l, pattern))
    IN  IF hits # <<>>
        THEN LET line == hits[1]
                 said == Strip(BeforeFirst(SecondPart(line, "confidence="), ","))
             IN  [category |-> IF Contains(line, "category=")
                               THEN Strip(BeforeFirst(SecondPart(line, "category="), ","))
                               ELSE "other",
                  subcategory |-> "None",
                  confidence_score |-> IF Contains(line, "confidence=") /\ IsIntText(said)
                                       THEN StrToNat(said) ELSE 50,
                  is_recurring |-> Contains(Lower(line), "recurring=true"),
                  reasoning |-> "Batch AI categorization"]
        ELSE [category |-> "other",
              subcategory |-> "None",
              confidence_score |-> 30,
              is_recurring |-> FALSE,
              reasoning |-> "Batch processing fallback"]

\* transaction.update(data)
Update(transaction, data) == data @@ transaction

\* _parse_batch_response
ParseBatchResponse(lines, txns) ==
    [i \in 1..Len(txns) |->
        IF i <= 20
        THEN Update(txns[i], ExtractCategoryInfoFromLine(lines, i))
        ELSE Update(txns[i],
                    FallbackCategorization(txns[i].description,
                                           txns[i].amount))]

\* The reply to the i-th single completion of a call.
ReplyAt(replies, i) == replies[((i - 1) % Len(replies)) + 1]

\* categorize_batch with _batch_categorize_with_groq: the list returned.
\* The batch completion raises, has no content, or has these lines.
RECURSIVE CategorizeBatch(_, _, _, _)
CategorizeBatch(groq_client, txns, replies, batch_reply) ==
    IF groq_client /\ Len(txns) > 5
    THEN IF batch_reply.kind = "lines"
         THEN ParseBatchResponse(batch_reply.lines, txns)
         ELSE CategorizeBatch(groq_client, SubSeq(txns, 1, 5), replies, batch_reply)
    ELSE [i \in 1..Len(txns) |->
             Update(txns[i],
                    TCCategorizeTransaction(groq_client, txns[i].description,
                                            txns[i].amount, ReplyAt(replies, i)))]

----------------------------------------------------------------------------
(* SpecCategorizer: one call of categorize_transaction or categorize_batch *)

\* Longest batch handed to categorize_batch.
MaxBatch == 22

BatchSizes == {0, 1, 5, 6, 20, 21, MaxBatch}

BatchDescriptions ==
    <<"SALARY CREDIT ACME LTD", "Grocery supermarket", "HOME LOAN EMI HDFC",
      "ELSS SIP AXIS", "Uber trip">>

\* The batch of n transactions; id tells the transactions apart.
BatchOf(n) ==
    [i \in 1..n |->
        [id |-> i,
         description |-> BatchDescriptions[((i - 1) % Len(BatchDescriptions)) + 1],
         amount |-> 4000]]

BatchLine(i, category, confidence) ==
    "Transaction " \o NatToStr(i) \o ": category=" \o category
    \o ", subcategory=none, confidence=" \o confidence \o ", recurring=true"

\* What the batch completion does on n transactions.
BatchReplies(n) ==
    LET k == Min(n, 20)
    IN  { Raises,
          [kind |-> "no_content"],
          [kind |-> "lines", lines |-> [i \in 1..k |-> BatchLine(i, "food", "85")]],
          [kind |-> "lines", lines |->
              <<"Here are the categories:">>
              \o [i \in 1..k |-> BatchLine(i, IF i % 2 = 1 THEN "Groceries" ELSE "emi", "high")]],
          [kind |-> "lines", lines |->
              [i \in 1..(k \div 2) |-> "Transaction " \o NatToStr(i) \o ": unclear"]],
          [kind |-> "lines", lines |-> <<"">>] }

ReplyPatterns ==
    { <<Raises>>,
      <<JsonReply(Put(EmptyDict, "category", "food")),
        TextReply("I cannot tell."),
        JsonReply(Put(Put(EmptyDict, "category", "groceries"), "is_recurring", TRUE))>>,
      <<TextReply("A transport fare, certainly not income."), Raises>> }

CategorizerCalls ==
    [fn : {"TransactionCategorizer.categorize_transaction"}, groq_client : BOOLEAN,
     text : {BatchDescriptions[i] : i \in 1..Len(BatchDescriptions)} \cup {""},
     amount : {4000}, reply : SingleReplies]
    \cup UNION {[fn : {"categorize_batch"}, groq_client : BOOLEAN, n : {n},
                 replies : ReplyPatterns, batch_reply : BatchReplies(n)] : n \in BatchSizes}

InitCategorizer ==
    /\ call_args \in CategorizerCalls
    /\ call_result = NoCall
    /\ TaxIdle
    /\ BracketIdle
    /\ DialogIdle
    /\ ConcIdle
    /\ ChatIdle

CallTCCategorizeTransaction ==
    /\ call_args.fn = "TransactionCategorizer.categorize_transaction"
    /\ ~call_result.called
    /\ \E out \in {TCCategorizeTransaction(call_args.groq_client, call_args.text,
                                           call_args.amount, call_args.reply)} :
           call_result' = [called |-> TRUE, data |-> out]
    /\ UNCHANGED ClassifyFrame

CallCategorizeBatch ==
    /\ call_args.fn = "categorize_batch"
    /\ ~call_result.called
    /\ \E out \in {CategorizeBatch(call_args.groq_client, BatchOf(call_args.n),
                                   call_args.replies, call_args.batch_reply)} :
           call_result' = [called |-> TRUE, records |-> out]
    /\ UNCHANGED ClassifyFrame

NextCategorizer == CallTCCategorizeTransaction \/ CallCategorizeBatch

SpecCategorizer == InitCategorizer /\ [][NextCategorizer]_vars

\* The LLM call of this call failed.
LLMFailed ==
    /\ call_args.groq_client
    /\ \/ /\ call_args.fn = "TransactionCategorizer.categorize_transaction"
          /\ call_args.reply.kind = "raises"
       \/ /\ call_args.fn = "categorize_batch"
          /\ call_args.n > 5
          /\ call_args.batch_reply.kind = "raises"

\* The record the rule-based categorization gives a transaction.
RuleBased(transaction) ==
    Update(transaction, FallbackCategorization(transaction.description, transaction.amount))

\* C22: every category written by categorize_transaction or
\* categorize_batch is one of the 13 labels, whatever the LLM returns, and
\* when the LLM call fails every transaction gets the rule-based
\* categorization.
C22_LabelsInEnumAndRuleFallback ==
    /\ ReturnedFrom("TransactionCategorizer.categorize_transaction") =>
           /\ InSeq(call_result.data.category, fallback_categories)
           /\ LLMFailed => call_result.data =
                               FallbackCategorization(call_args.text, call_args.amount)
    /\ ReturnedFrom("categorize_batch") =>
           /\ \A i \in 1..Len(call_result.records) :
                  InSeq(call_result.records[i].category, fallback_categories)
           /\ LLMFailed => call_result.records =
                               [i \in 1..call_args.n |-> RuleBased(BatchOf(call_args.n)[i])]

\* C29: categorize_batch returns one categorized record for every input
\* transaction, in input order, whatever the batch size and whether or not
\* the batch call fails.
C29_OneRecordPerTransaction ==
    ReturnedFrom("categorize_batch") =>
        /\ Len(call_result.records) = call_args.n
        /\ \A i \in 1..Len(call_result.records) :
               /\ call_result.records[i].id = i
               /\ "category" \in DOMAIN call_result.records[i]

----------------------------------------------------------------------------
(* Spec: the list of recommendations *)

RegimeChoices == {"stick_old_regime", "switch_new_regime"}

SectionOrder == <<"80C", "80D", "24b", "80TTA">>

\* The position of a section in SectionOrder.
SectionRank(x) == CHOOSE i \in 1..Len(SectionOrder) : SectionOrder[i] = x

\* C23: the list of recommendations holds exactly one regime-choice
\* recommendation, as its last element, and before it the section
\* recommendations in the order 80C, 80D, 24b, 80TTA.
C23_RegimeChoiceLast ==
    pc = "done" =>
        LET recs == result.recommendations
            n == Len(recs)
        IN  /\ Cardinality({i \in 1..n : recs[i] \in RegimeChoices}) = 1
            /\ recs[n] \in RegimeChoices
            /\ \A i \in 1..(n - 1) : InSeq(recs[i], SectionOrder)
            /\ \A i, j \in 1..(n - 1) : i < j => SectionRank(recs[i]) < SectionRank(recs[j])

----------------------------------------------------------------------------
(* The savings-interest branch of _analyze_financial_data, under Spec *)

\* A transaction the savings-interest branch is written for.
IsSavingsInterestCredit(t) ==
    /\ t.transaction_type = "credit"
    /\ Contains(Lower(t.description), "interest")
    /\ Contains(Lower(t.description), "savings")

\* C27: the 80TTA entry of the ledger of _analyze_financial_data is 0 for
\* every sequence of transactions: a credit is consumed by the income
\* branch, so the savings-interest branch never adds to 80TTA.
C27_NoSavingsInterestDeduction ==
    deductions["80TTA"] = 0

\* The scan is over a sequence that holds a savings-interest credit and
\* other deductions were collected.
C27_Witness ==
    /\ pc = "done"
    /\ \E i \in 1..Len(transactions) : IsSavingsInterestCredit(transactions[i])
    /\ deductions["80TTA"] = 0
    /\ deductions["80C"] > 0

----------------------------------------------------------------------------
(* SpecQuota: get_ai_response run by the threads of the threaded server    *)
(* (app.run(threaded=True)) on the one advisor of the module, one          *)
(* statement per step.  Every handler thread runs its coroutine on a loop  *)
(* of its own, and nothing guards gemini_requests_count.  The calls fall   *)
(* between two daily resets: datetime.now() stays below rate_limit_reset.  *)

\* The surroundings of the calls: Groq answers; Groq raises and Gemini
\* answers; both raise; no provider is configured.
BothRaise == [AllDown EXCEPT !.day_rolled = FALSE]
QuotaEnvs == {GroqAnswers, GeminiAnswers, BothRaise, NoProviders}

\* gemini_requests_count when the calls arrive.
QuotaCounts == {0, max_gemini_requests - 2, max_gemini_requests - 1, max_gemini_requests}

\* The locals of a thread that enters get_ai_response: where it stands, the
\* count it read for +=, whether it called generate_content_async, who
\* answered, and the count when the calls arrived.
EnterAI(env, count) ==
    [pc |-> "reset", env |-> env, loaded |-> 0, invoked |-> FALSE, by |-> "",
     count_before |-> count]

InitQuota ==
    /\ TaxIdle
    /\ BracketIdle
    /\ ChatIdle
    /\ CallIdle
    /\ sessions = EmptyDict
    /\ request = NoRequest
    /\ twiml = <<>>
    /\ sessions_before = EmptyDict
    /\ gemini_requests_count \in QuotaCounts
    /\ \E e1 \in QuotaEnvs, e2 \in QuotaEnvs :
           turn = [t \in Threads |->
                      EnterAI(IF t = "T1" THEN e1 ELSE e2, gemini_requests_count)]

QuotaFrame ==
    UNCHANGED <<taxVars, bracketVars, chatVars, callVars, sessions, request, twiml,
                sessions_before>>

\* self.reset_daily_limits()
AIResetDailyLimits ==
    \E t \in Threads :
        /\ turn[t].pc = "reset"
        /\ gemini_requests_count' =
               IF turn[t].env.day_rolled THEN 0 ELSE gemini_requests_count
        /\ turn' = [turn EXCEPT ![t].pc = "groq"]
        /\ QuotaFrame

\* if groq_client: try: return the completion; except: log
AITryGroq ==
    \E t \in Threads :
        /\ turn[t].pc = "groq"
        /\ turn' = IF turn[t].env.groq = "ok"
                   THEN [turn EXCEPT ![t].pc = "done", ![t].by = "groq"]
                   ELSE [turn EXCEPT ![t].pc = "check"]
        /\ UNCHANGED gemini_requests_count
        /\ QuotaFrame

\* if gemini_model and self.gemini_requests_count < self.max_gemini_requests:
\* else the rule-based response
AICheckQuota ==
    \E t \in Threads :
        /\ turn[t].pc = "check"
        /\ turn' = IF /\ turn[t].env.gemini # "absent"
                      /\ gemini_requests_count < max_gemini_requests
                   THEN [turn EXCEPT ![t].pc = "load"]
                   ELSE [turn EXCEPT ![t].pc = "done", ![t].by = "rules"]
        /\ UNCHANGED gemini_requests_count
        /\ QuotaFrame

\* self.gemini_requests_count += 1: the read
AILoadCount ==
    \E t \in Threads :
        /\ turn[t].pc = "load"
        /\ turn' = [turn EXCEPT ![t].pc = "store", ![t].loaded = gemini_requests_count]
        /\ UNCHANGED gemini_requests_count
        /\ QuotaFrame

\* self.gemini_requests_count += 1: the write
AIStoreCount ==
    \E t \in Threads :
        /\ turn[t].pc = "store"
        /\ gemini_requests_count' = turn[t].loaded + 1
        /\ turn' = [turn EXCEPT ![t].pc = "invoke"]
        /\ QuotaFrame

\* await gemini_model.generate_content_async(prompt); the rule-based
\* response when it raises
AIInvokeGemini ==
    \E t \in Threads :
        /\ turn[t].pc = "invoke"
        /\ turn' = [turn EXCEPT ![t].pc = "done", ![t].invoked = TRUE,
                                ![t].by = IF turn[t].env.gemini = "ok"
                                          THEN "gemini" ELSE "rules"]
        /\ UNCHANGED gemini_requests_count
        /\ QuotaFrame

NextQuota ==
    \/ AIResetDailyLimits
    \/ AITryGroq
    \/ AICheckQuota
    \/ AILoadCount
    \/ AIStoreCount
    \/ AIInvokeGemini

SpecQuota == InitQuota /\ [][NextQuota]_vars

\* The calls of generate_content_async made since the last daily reset,
\* those made before the threads arrived included.
GeminiInvocations(tt) ==
    Cardinality({t \in Threads : tt[t].invoked})

\* C30: between two daily resets gemini_requests_count never exceeds
\* max_gemini_requests and Gemini is not invoked once the count has
\* reached the cap, for every interleaving of the get_ai_response calls of
\* concurrently handled turns.
C30_QuotaHoldsUnderInterleaving ==
    /\ gemini_requests_count <= max_gemini_requests
    /\ \A t \in Threads :
           turn[t].invoked =>
               turn[t].count_before + GeminiInvocations(turn) <= max_gemini_requests

=============================================================================
